---- MODULE Spec2Model ----
(***************************************************************************)
(* Model of the stock-app backend: the WebSocket subscription fan-out      *)
(* engine (app/services/websocket_service.py, app/api/websocket.py) and    *)
(* the cache-aside quote/history service (app/services/stock_service.py)   *)
(* over the Redis client (app/core/redis_client.py).                       *)
(***************************************************************************)
EXTENDS Integers, Sequences, FiniteSets, TLC

\* ------------------------------------------------------------------ bounds

\* Number of client connections (each gets a fresh uuid4 client id).
NClients == 2
\* Number of Poll Tasks alive at the same time (a finished task's slot in
\* the table of tasks is used again).
MaxTasks == 2

\* Calendar days the price store and the provider know of; the service
\* calls are made on the last one.
MaxDay == 3
\* Number of service calls (getQuote, getHistory) of a run.
MaxCalls == 3

\* Database sessions (requests being served at the same time), and the
\* history syncs each of them runs one after the other.
NSyncs == 2

MaxRuns == 2

\* Calls of the symbol resolver in a run.
MaxResolves == 2

\* Ticks the Poll Tasks build in a run with a running clock.
MaxTicks == 2

Clients == 1..NClients
NoClient == 0

\* ---------------------------------------------------------- Python values

\* A Python value with its type. None is also a cache miss.
None == [t |-> "None"]
PyFloat(n) == [t |-> "float", v |-> n]
PyInt(n) == [t |-> "int", v |-> n]
PyStr(s) == [t |-> "str", v |-> s]
Date(d) == [t |-> "datetime", v |-> d]
Dict(f) == [t |-> "dict", v |-> f]
List(q) == [t |-> "list", v |-> q]
\* float('nan'), as pandas gives for a missing value
NaN == [t |-> "nan"]
\* float('inf') and float('-inf')
Inf == [t |-> "inf"]
NegInf == [t |-> "-inf"]

\* bool(x) of "if x:".
Truthy(x) ==
    CASE x.t = "None" -> FALSE
      [] x.t = "dict" -> DOMAIN x.v # {}
      [] x.t = "list" -> x.v # <<>>
      [] x.t \in {"int", "float"} -> x.v # 0
      [] x.t = "str" -> x.v # ""
      [] OTHER -> TRUE

\* datetime.isoformat() / str(datetime)
isoformat(d) == <<"iso", d>>

\* date.strftime('%Y-%m-%d')
strftime(d) == <<"%Y-%m-%d", d>>

RECURSIVE dumps(_)
\* json.dumps(value, default=str): the JSON text, as its syntax tree. A value
\* JSON has no form for (a datetime) is written as the string str() gives.
dumps(x) ==
    CASE x.t = "dict" -> [j |-> "object", v |-> [k \in DOMAIN x.v |-> dumps(x.v[k])]]
      [] x.t = "list" -> [j |-> "array", v |-> [i \in DOMAIN x.v |-> dumps(x.v[i])]]
      [] x.t = "None" -> [j |-> "null"]
      [] x.t = "nan" -> [j |-> "NaN"]
      [] x.t = "inf" -> [j |-> "Infinity"]
      [] x.t = "-inf" -> [j |-> "-Infinity"]
      [] x.t = "float" -> [j |-> "number", v |-> x.v, point |-> TRUE]
      [] x.t = "int" -> [j |-> "number", v |-> x.v, point |-> FALSE]
      [] x.t = "str" -> [j |-> "string", v |-> x.v]
      [] x.t = "datetime" -> [j |-> "string", v |-> isoformat(x.v)]

RECURSIVE loads_float(_)
\* Mutant: every JSON number is read as a float.
loads_float(y) ==
    CASE y.j = "object" -> Dict([k \in DOMAIN y.v |-> loads_float(y.v[k])])
      [] y.j = "array" -> List([i \in DOMAIN y.v |-> loads_float(y.v[i])])
      [] y.j = "null" -> None
      [] y.j = "NaN" -> NaN
      [] y.j = "Infinity" -> Inf
      [] y.j = "-Infinity" -> NegInf
      [] y.j = "number" -> PyFloat(y.v)
      [] y.j = "string" -> PyStr(y.v)

RECURSIVE loads(_)
\* json.loads(text)
loads(y) ==
    CASE y.j = "object" -> Dict([k \in DOMAIN y.v |-> loads(y.v[k])])
      [] y.j = "array" -> List([i \in DOMAIN y.v |-> loads(y.v[i])])
      [] y.j = "null" -> None
      [] y.j = "NaN" -> NaN
      [] y.j = "Infinity" -> Inf
      [] y.j = "-Infinity" -> NegInf
      [] y.j = "number" -> IF y.point THEN PyFloat(y.v) ELSE PyInt(y.v)
      [] y.j = "string" -> PyStr(y.v)

RECURSIVE sanitize_for_json(_)
sanitize_for_json(x) ==
    CASE x.t = "dict" -> Dict([k \in DOMAIN x.v |-> sanitize_for_json(x.v[k])])
      [] x.t = "list" -> List([i \in DOMAIN x.v |-> sanitize_for_json(x.v[i])])
      [] x.t \in {"nan", "inf", "-inf"} -> None
      [] x.t = "datetime" -> PyStr(isoformat(x.v))
      [] OTHER -> x

\* ------------------------------------------------------- generic helpers

Drop(f, k) == [x \in DOMAIN f \ {k} |-> f[x]]

Put(f, k, v) == [x \in DOMAIN f \cup {k} |-> IF x = k THEN v ELSE f[x]]

\* ------------------------------------------------------- symbol strings

\* Symbol strings a client may put in a message.
RawSymbols == {"abc", " abc", "XYZ", ""}

\* str.upper()
Upper(s) ==
    CASE s = "abc" -> "ABC"
      [] s = " abc" -> " ABC"
      [] OTHER -> s

\* str.strip()
Strip(s) ==
    CASE s = " abc" -> "abc"
      [] s = " ABC" -> "ABC"
      [] OTHER -> s

VARIABLES
    active_connections,   \* client ids with a connection entry
    subscriptions,        \* client id -> set of symbols
    symbol_subscribers,   \* symbol -> set of client ids
    update_tasks,         \* symbol -> task id (the task registry)
    tasks,                \* the Poll Tasks of the event loop, by slot
    handler,              \* client id -> position of its websocket_endpoint
    redis,                \* RedisClient.redis: "none" | "up" | "down"
    cache,                \* Redis contents: key -> entry, absent keys missing
    stocks,               \* table stocks: symbol -> row
    stock_history,        \* table stock_history: the set of its rows
    call,                 \* the StockService call in progress (or the last)
    now,                  \* the clock: calls started so far
    syncs,                \* database session -> the history sync it runs
    resolver,             \* the call of get_safe_ticker_data_sync in progress
    clock,                \* datetime.now() of the Poll Tasks: ticks built so far
    received,             \* client id -> symbol -> timestamp of the tick last sent
    probe                 \* the last direct call of the cache client, and its result

wsVars == <<active_connections, subscriptions, symbol_subscribers,
            update_tasks, tasks, handler, clock, received>>

svcVars == <<stocks, stock_history, call, now, syncs, resolver, probe>>

vars == <<active_connections, subscriptions, symbol_subscribers,
          update_tasks, tasks, handler, redis, cache,
          stocks, stock_history, call, now, syncs, resolver, clock, received,
          probe>>

\* ------------------------------------------------------------ Redis client

RealtimeTTL == 30

HistoricalTTL == 86400

\* RedisClient.get: None when not connected, on error, or on a missing key.
RedisGet(r, ch, key) ==
    IF r = "none" THEN None
    ELSE IF r = "down" THEN None
    ELSE IF key \in DOMAIN ch THEN loads(ch[key].val) ELSE None

\* Mutant: a write goes through whatever the state of the connection.
RedisSet_always(r, ch, key, value, ttl) ==
    Put(ch, key, [val |-> dumps(value), ttl |-> ttl])

\* RedisClient.set: the cache after the call (unchanged unless connected).
RedisSet(r, ch, key, value, ttl) ==
    IF r = "none" THEN ch
    ELSE IF r = "down" THEN ch
    ELSE Put(ch, key, [val |-> dumps(value), ttl |-> ttl])

\* RedisClient.delete: the cache after the call.
RedisDelete(r, ch, key) ==
    IF r = "none" THEN ch
    ELSE IF r = "down" THEN ch
    ELSE Drop(ch, key)

\* The value RedisClient.set and RedisClient.delete return.
RedisOk(r) == r = "up"

\* No direct call of the cache client yet; written is the value last set
\* under each key, as long as it was neither deleted nor expired since.
IdleProbe ==
    [op |-> "", key |-> <<>>, value |-> None, result |-> None, ok |-> FALSE,
     written |-> << >>]

\* The keys, values and TTLs of the direct calls: the test value of
\* test_redis_connection, a nested value, an empty dictionary and a zero.
ProbeKeys == {<<"test_key">>, <<"other_key">>}

ProbeValues ==
    {Dict([test |-> PyStr("data")]),
     Dict([count |-> PyInt(1), price |-> PyFloat(1),
           rows |-> List(<<None, PyStr("")>>)]),
     Dict(<< >>),
     PyInt(0)}

ProbeTTLs == {60, 300}

\* await redis_client.set(key, value, ttl)
CacheSet(key, value, ttl) ==
    /\ cache' = RedisSet(redis, cache, key, value, ttl)
    /\ probe' = [op |-> "set", key |-> key, value |-> value, result |-> None,
                 ok |-> RedisOk(redis),
                 written |-> IF RedisOk(redis) THEN Put(probe.written, key, value)
                             ELSE probe.written]
    /\ UNCHANGED <<active_connections, subscriptions, symbol_subscribers,
                   update_tasks, tasks, handler, clock, received, redis,
                   stocks, stock_history, call, now, syncs, resolver>>

\* await redis_client.get(key)
CacheGet(key) ==
    /\ probe' = [probe EXCEPT !.op = "get", !.key = key, !.value = None,
                              !.result = RedisGet(redis, cache, key),
                              !.ok = FALSE]
    /\ UNCHANGED <<active_connections, subscriptions, symbol_subscribers,
                   update_tasks, tasks, handler, clock, received, redis, cache,
                   stocks, stock_history, call, now, syncs, resolver>>

\* await redis_client.delete(key)
CacheDelete(key) ==
    /\ cache' = RedisDelete(redis, cache, key)
    /\ probe' = [op |-> "delete", key |-> key, value |-> None, result |-> None,
                 ok |-> RedisOk(redis),
                 written |-> IF key \in DOMAIN probe.written
                             THEN Drop(probe.written, key) ELSE probe.written]
    /\ UNCHANGED <<active_connections, subscriptions, symbol_subscribers,
                   update_tasks, tasks, handler, clock, received, redis,
                   stocks, stock_history, call, now, syncs, resolver>>

\* ----------------------------------------------------- CacheAdminService

\* The name of a key as Redis holds it, character by character.
KeyText(key) ==
    CASE key = <<"test_key">>  -> <<"t", "e", "s", "t", "_", "k", "e", "y">>
      [] key = <<"other_key">> -> <<"o", "t", "h", "e", "r", "_", "k", "e", "y">>

\* The prefix parameter of POST /cache/clear; the empty one stands for a
\* missing or empty parameter.
ClearPrefixes ==
    {<< >>, <<"t">>, <<"t", "e", "s", "t">>, <<"k", "e", "y">>, <<"x">>}

RECURSIVE GlobMatch(_, _)
\* The MATCH option of SCAN: text matches the glob pattern, whose "*" stands
\* for any run of characters.
GlobMatch(pattern, text) ==
    IF pattern = << >> THEN text = << >>
    ELSE IF Head(pattern) = "*"
         THEN \/ GlobMatch(Tail(pattern), text)
              \/ text # << >> /\ GlobMatch(pattern, Tail(text))
         ELSE /\ text # << >>
              /\ Head(text) = Head(pattern)
              /\ GlobMatch(Tail(pattern), Tail(text))

\* _delete_keys_by_pattern: the keys the SCAN loop returns, all deleted.
delete_keys_by_pattern(ch, pattern) ==
    {key \in DOMAIN ch : GlobMatch(pattern, KeyText(key))}

\* CacheAdminService.clear_cache: the cache afterwards and the result.
clear_cache(r, ch, prefix) ==
    IF r = "none"
    THEN [cache |-> ch, deleted_count |-> 0, error |-> TRUE]
    ELSE IF r = "down"
    THEN [cache |-> ch, deleted_count |-> 0, error |-> TRUE]
    ELSE IF prefix # << >>
    THEN LET pattern == <<"*">> \o prefix \o <<"*">>
             keys == delete_keys_by_pattern(ch, pattern)
         IN  [cache |-> [key \in DOMAIN ch \ keys |-> ch[key]],
              deleted_count |-> Cardinality(keys), error |-> FALSE]
    ELSE [cache |-> << >>, deleted_count |-> 0 - 1, error |-> FALSE]

\* POST /cache/clear?prefix=...
ClearCache(prefix) ==
    /\ LET res == clear_cache(redis, cache, prefix)
       IN  /\ cache' = res.cache
           /\ probe' = [op |-> "clear", key |-> prefix, value |-> None,
                        result |-> PyInt(res.deleted_count),
                        ok |-> ~res.error,
                        written |-> [key \in DOMAIN probe.written
                                              \cap DOMAIN res.cache |->
                                        probe.written[key]]]
    /\ UNCHANGED <<active_connections, subscriptions, symbol_subscribers,
                   update_tasks, tasks, handler, clock, received, redis,
                   stocks, stock_history, call, now, syncs, resolver>>

\* ------------------------------------------------- WebSocketManager state

\* The manager's dictionaries and the tasks of the event loop, as one value
\* that the (nested) method calls transform.
Mgr ==
    [active_connections |-> active_connections,
     subscriptions      |-> subscriptions,
     symbol_subscribers |-> symbol_subscribers,
     update_tasks       |-> update_tasks,
     tasks              |-> tasks,
     full               |-> FALSE]

SetMgr(m) ==
    /\ active_connections' = m.active_connections
    /\ subscriptions' = m.subscriptions
    /\ symbol_subscribers' = m.symbol_subscribers
    /\ update_tasks' = m.update_tasks
    /\ tasks' = m.tasks

\* asyncio.create_task(self._update_symbol_loop(symbol)): scheduled, not run.
NewTask(symbol) ==
    [symbol |-> symbol, pc |-> "new", cancel |-> "no",
     pending |-> {}, failed |-> {}, cur |-> NoClient, tick |-> None]

\* A finished task, and a slot of the table that no task has used yet.
DoneTask ==
    [symbol |-> "", pc |-> "done", cancel |-> "no",
     pending |-> {}, failed |-> {}, cur |-> NoClient, tick |-> None]

Finished(t) == t.pc = "done"

Live(m) == {id \in DOMAIN m.tasks : ~Finished(m.tasks[id])}

\* The table is full when a task is to be created: the run stops there.
create_task(m, symbol) ==
    LET free == DOMAIN m.tasks \ Live(m)
    IN  IF free = {} THEN [m EXCEPT !.full = TRUE]
        ELSE LET id == CHOOSE i \in free : \A j \in free : i <= j
             IN  [m EXCEPT !.tasks[id] = NewTask(symbol),
                           !.update_tasks = Put(@, symbol, id)]

\* Task.cancel(): a finished task ignores it; the running task (run) only
\* gets its must-cancel flag; a suspended or unstarted one is woken with
\* CancelledError.
task_cancel(m, id, run) ==
    IF Finished(m.tasks[id]) THEN m
    ELSE [m EXCEPT !.tasks[id].cancel = IF id = run THEN "must" ELSE "fut"]

\* Mutant: the last subscriber leaves and the task stays registered.
unsubscribe_symbol_keep(m, client_id, rawsym, run) ==
    LET symbol == Upper(rawsym)
        m1 == IF client_id \in DOMAIN m.subscriptions
              THEN [m EXCEPT !.subscriptions[client_id] = @ \ {symbol}]
              ELSE m
    IN  IF symbol \in DOMAIN m1.symbol_subscribers
        THEN LET rest == m1.symbol_subscribers[symbol] \ {client_id}
             IN  IF rest = {}
                 THEN [m1 EXCEPT !.symbol_subscribers = Drop(@, symbol)]
                 ELSE [m1 EXCEPT !.symbol_subscribers[symbol] = rest]
        ELSE m1

\* Mutant: the client leaves the subscriber set and keeps the symbol in its
\* own set.
unsubscribe_symbol_one_way(m, client_id, rawsym, run) ==
    LET symbol == Upper(rawsym)
    IN  IF symbol \in DOMAIN m.symbol_subscribers
        THEN LET rest == m.symbol_subscribers[symbol] \ {client_id}
             IN  IF rest = {}
                 THEN LET m2 == IF symbol \in DOMAIN m.update_tasks
                                THEN [task_cancel(m, m.update_tasks[symbol], run)
                                        EXCEPT !.update_tasks = Drop(@, symbol)]
                                ELSE m
                      IN  [m2 EXCEPT !.symbol_subscribers = Drop(@, symbol)]
                 ELSE [m EXCEPT !.symbol_subscribers[symbol] = rest]
        ELSE m

unsubscribe_symbol(m, client_id, rawsym, run) ==
    LET symbol == Upper(rawsym)
        m1 == IF client_id \in DOMAIN m.subscriptions
              THEN [m EXCEPT !.subscriptions[client_id] = @ \ {symbol}]
              ELSE m
    IN  IF symbol \in DOMAIN m1.symbol_subscribers
        THEN LET rest == m1.symbol_subscribers[symbol] \ {client_id}
             IN  IF rest = {}
                 THEN LET m2 == IF symbol \in DOMAIN m1.update_tasks
                                THEN [task_cancel(m1, m1.update_tasks[symbol], run)
                                        EXCEPT !.update_tasks = Drop(@, symbol)]
                                ELSE m1
                      IN  [m2 EXCEPT !.symbol_subscribers = Drop(@, symbol)]
                 ELSE [m1 EXCEPT !.symbol_subscribers[symbol] = rest]
        ELSE m1

RECURSIVE UnsubscribeEach(_, _, _, _)
\* for symbol in <set of symbols>: self.unsubscribe_symbol(client_id, symbol)
UnsubscribeEach(m, client_id, syms, run) ==
    IF syms = {} THEN m
    ELSE LET s == CHOOSE x \in syms : TRUE
         IN  UnsubscribeEach(unsubscribe_symbol(m, client_id, s, run),
                             client_id, syms \ {s}, run)

\* Mutant: the entries of the client are deleted, its symbols are not left.
disconnect_entries_only(m, client_id, run) ==
    [m EXCEPT !.active_connections = @ \ {client_id},
              !.subscriptions = Drop(@, client_id)]

disconnect(m, client_id, run) ==
    LET m1 == [m EXCEPT !.active_connections = @ \ {client_id}]
    IN  IF client_id \in DOMAIN m1.subscriptions
        THEN [UnsubscribeEach(m1, client_id, m1.subscriptions[client_id], run)
                EXCEPT !.subscriptions = Drop(@, client_id)]
        ELSE m1

\* One pass of the first loop of subscribe_symbols.
SubscribeOne(m, client_id, rawsym) ==
    LET symbol == Strip(Upper(rawsym))
    IN  IF symbol = "" THEN m
        ELSE LET m1 == [m EXCEPT !.subscriptions[client_id] = @ \cup {symbol}]
                 old == IF symbol \in DOMAIN m1.symbol_subscribers
                        THEN m1.symbol_subscribers[symbol] ELSE {}
                 m2 == [m1 EXCEPT !.symbol_subscribers =
                                     Put(@, symbol, old \cup {client_id})]
             IN  IF Cardinality(m2.symbol_subscribers[symbol]) = 1
                 THEN create_task(m2, symbol)
                 ELSE m2

RECURSIVE SubscribeLoop(_, _, _)
SubscribeLoop(m, client_id, symbols) ==
    IF symbols = <<>> THEN m
    ELSE SubscribeLoop(SubscribeOne(m, client_id, Head(symbols)),
                       client_id, Tail(symbols))

\* Mutant: a client without a subscription entry is given one.
subscribe_symbols_setdefault(m, client_id, symbols) ==
    SubscribeLoop(IF client_id \in DOMAIN m.subscriptions THEN m
                  ELSE [m EXCEPT !.subscriptions = Put(@, client_id, {})],
                  client_id, symbols)

\* subscribe_symbols up to its first await.
subscribe_symbols(m, client_id, symbols) ==
    IF client_id \notin DOMAIN m.subscriptions THEN m
    ELSE SubscribeLoop(m, client_id, symbols)

\* send_to_client after its await: send_text returned (ok) or raised.
send_text_done(m, client_id, ok, run) ==
    IF ok THEN m ELSE disconnect(m, client_id, run)

\* send_to_client as a whole: the manager afterwards.
send_to_client(m, client_id, ok, run) ==
    IF client_id \in m.active_connections
    THEN send_text_done(m, client_id, ok, run)
    ELSE m

RECURSIVE UnsubscribeClients(_, _, _, _)
\* for client_id in disconnected_clients: self.unsubscribe_symbol(client_id, symbol)
UnsubscribeClients(m, clients, symbol, run) ==
    IF clients = {} THEN m
    ELSE LET c == CHOOSE x \in clients : TRUE
         IN  UnsubscribeClients(unsubscribe_symbol(m, c, symbol, run),
                                clients \ {c}, symbol, run)

\* The client the broadcast loop suspends on next: a connected client of the
\* rest of the copy (the set is iterated in no particular order), or NoClient
\* when no such client is left.
NextSend(m, id, c) ==
    LET live == m.tasks[id].pending \cap m.active_connections
    IN  IF live = {} THEN c = NoClient ELSE c \in live

\* Mutant: the loop stops at the first failed send.
BroadcastResume_break(m, id, c) ==
    LET t == m.tasks[id]
        gone == t.pending \ m.active_connections
    IN  IF c # NoClient /\ t.failed = {}
        THEN [m EXCEPT !.tasks[id] =
                 [t EXCEPT !.pc = "send", !.cur = c,
                           !.pending = (t.pending \ gone) \ {c},
                           !.failed = t.failed \cup gone]]
        ELSE [UnsubscribeClients(m, t.failed \cup gone, t.symbol, id)
                 EXCEPT !.tasks[id].pc = "sleep5",
                        !.tasks[id].pending = {},
                        !.tasks[id].failed = {},
                        !.tasks[id].cur = NoClient,
                        !.tasks[id].tick = None]

\* The for-loop of broadcast_to_symbol_subscribers from its current position
\* to its next suspension, the send to client c. send_to_client returns False
\* at once for a client with no connection entry. After the loop the failed
\* clients are unsubscribed and the Poll Task goes to sleep(5).
BroadcastResume(m, id, c) ==
    LET t == m.tasks[id]
        gone == t.pending \ m.active_connections
    IN  IF c # NoClient
        THEN [m EXCEPT !.tasks[id] =
                 [t EXCEPT !.pc = "send", !.cur = c,
                           !.pending = (t.pending \ gone) \ {c},
                           !.failed = t.failed \cup gone]]
        ELSE [UnsubscribeClients(m, t.failed \cup gone, t.symbol, id)
                 EXCEPT !.tasks[id].pc = "sleep5",
                        !.tasks[id].pending = {},
                        !.tasks[id].failed = {},
                        !.tasks[id].cur = NoClient,
                        !.tasks[id].tick = None]

\* broadcast_to_symbol_subscribers from its start: the subscriber set is copied.
broadcast_to_symbol_subscribers(m, id, c) ==
    LET symbol == m.tasks[id].symbol
    IN  IF symbol \in DOMAIN m.symbol_subscribers
        THEN BroadcastResume(
                 [m EXCEPT !.tasks[id].pending = m.symbol_subscribers[symbol],
                           !.tasks[id].failed = {}], id, c)
        ELSE [m EXCEPT !.tasks[id].pc = "sleep5", !.tasks[id].tick = None]

BroadcastFirst(m, id, c) ==
    LET symbol == m.tasks[id].symbol
        live == IF symbol \in DOMAIN m.symbol_subscribers
                THEN m.symbol_subscribers[symbol] \cap m.active_connections
                ELSE {}
    IN  IF live = {} THEN c = NoClient ELSE c \in live

\* What the provider gives a Poll Task whose fetch has data: a priced bar
\* and no previousClose in info; a bar without a close; a priced bar and a
\* previousClose of 0.
PollBars == {"rows", "nanclose", "zeroprev"}

\* hist.iloc[-1]
PollLatest(bar) ==
    IF bar = "nanclose" THEN [Close |-> NaN, Volume |-> PyFloat(0)]
    ELSE [Close |-> PyFloat(2), Volume |-> PyFloat(2)]

\* getattr(ticker, 'info', {})
PollInfo(bar) ==
    IF bar = "zeroprev" THEN [previousClose |-> PyInt(0)] ELSE << >>

\* numpy.float64 subtraction
np_subtract(x, y) ==
    IF x = NaN \/ y = NaN THEN NaN ELSE PyFloat(x.v - y.v)

\* x / y * 100 on numpy.float64: a division by zero is no exception, it
\* gives inf, -inf or nan.
np_percent(x, y) ==
    IF x = NaN \/ y = NaN THEN NaN
    ELSE IF y.v = 0
    THEN (IF x.v = 0 THEN NaN ELSE IF x.v > 0 THEN Inf ELSE NegInf)
    ELSE PyFloat((x.v * 100) \div y.v)

\* Lines 132-145: the tick the Poll Task builds, asdict(StockData(...)).
StockData(symbol, bar, ts) ==
    LET info == PollInfo(bar)
        latest == PollLatest(bar)
        prev_close == IF "previousClose" \in DOMAIN info
                      THEN info.previousClose ELSE latest.Close
    IN  Dict([symbol |-> PyStr(symbol),
              price |-> latest.Close,
              change |-> np_subtract(latest.Close, prev_close),
              change_percent |->
                  np_percent(np_subtract(latest.Close, prev_close), prev_close),
              volume |-> PyInt(latest.Volume.v),
              timestamp |-> PyStr(isoformat(ts))])

\* The time a tick was built at.
TickTime(data) == data.v.timestamp.v[2]

\* The time of the tick of the symbol last sent to the client; 0 before any.
LastOf(rc, client_id, symbol) ==
    IF symbol \in DOMAIN rc[client_id] THEN rc[client_id][symbol] ELSE 0

\* send_text(json.dumps(message)) has returned: the client has the tick.
Deliver(rc, client_id, data) ==
    IF TickTime(data) = LastOf(rc, client_id, data.v.symbol.v) THEN rc
    ELSE [rc EXCEPT ![client_id] = Put(@, data.v.symbol.v, TickTime(data))]

RealtimeKey(symbol) == <<"realtime", symbol>>

\* ------------------------------------------------ websocket_endpoint steps

\* connect(): the connection is accepted and registered under a fresh id.
Connect(c) ==
    /\ handler[c].pc = "none"
    /\ active_connections' = active_connections \cup {c}
    /\ subscriptions' = Put(subscriptions, c, {})
    /\ handler' = [handler EXCEPT ![c].pc = "open"]
    /\ UNCHANGED <<symbol_subscribers, update_tasks, tasks, redis, cache, svcVars, clock, received>>

\* The symbols Poll Tasks run for: the normalized, non-empty ones.
PollSymbols == {Strip(Upper(s)) : s \in RawSymbols} \ {""}

IsPollSymbol(s) == s \in PollSymbols

\* The lookups of the second loop of subscribe_symbols that can find an
\* entry: only Poll Tasks write realtime keys, so a key realtime:{s} with s
\* not normalized is always a miss, and its lookup changes nothing. Without
\* a Redis connection get returns None at once and the loop does not suspend.
Lookups(r, symbols) ==
    IF r = "none" THEN <<>>
    ELSE SelectSeq([i \in DOMAIN symbols |-> Upper(symbols[i])], IsPollSymbol)

\* A "subscribe" message: subscribe_symbols runs to its first await.
RecvSubscribe(c, symbols) ==
    /\ handler[c].pc = "open"
    /\ LET m == subscribe_symbols(Mgr, c, symbols)
           todo == Lookups(redis, symbols)
       IN  /\ ~m.full
           /\ SetMgr(m)
           /\ handler' = [handler EXCEPT ![c] =
                 IF c \in DOMAIN subscriptions /\ todo # <<>>
                 THEN [pc |-> "push", push |-> todo]
                 ELSE [pc |-> "open", push |-> <<>>]]
    /\ UNCHANGED <<redis, cache, svcVars, clock, received>>

\* One pass of the second loop of subscribe_symbols: the cached tick of the
\* symbol, when there is one, is sent to the client (ok: the send returns).
PushCached(c, ok) ==
    /\ handler[c].pc = "push"
    /\ LET symbol == Head(handler[c].push)
           cached_data == RedisGet(redis, cache, RealtimeKey(symbol))
           rest == Tail(handler[c].push)
       IN  /\ IF cached_data # None
              THEN SetMgr(send_to_client(Mgr, c, ok, 0))
              ELSE ok /\ SetMgr(Mgr)
           /\ received' = IF cached_data # None /\ ok /\ c \in active_connections
                          THEN Deliver(received, c, cached_data)
                          ELSE received
           /\ handler' = [handler EXCEPT ![c] =
                 IF rest = <<>> THEN [pc |-> "open", push |-> <<>>]
                 ELSE [pc |-> "push", push |-> rest]]
    /\ UNCHANGED <<redis, cache, svcVars, clock>>

\* An "unsubscribe" message.
RECURSIVE UnsubscribeLoop(_, _, _)
UnsubscribeLoop(m, client_id, symbols) ==
    IF symbols = <<>> THEN m
    ELSE UnsubscribeLoop(unsubscribe_symbol(m, client_id, Head(symbols), 0),
                         client_id, Tail(symbols))

RecvUnsubscribe(c, symbols) ==
    /\ handler[c].pc = "open"
    /\ SetMgr(UnsubscribeLoop(Mgr, c, symbols))
    /\ UNCHANGED <<handler, redis, cache, svcVars, clock, received>>

\* The handler ends (WebSocketDisconnect, a malformed message, a failed
\* send of a reply): the finally clause disconnects the client.
HandlerEnd(c) ==
    /\ handler[c].pc = "open"
    /\ SetMgr(disconnect(Mgr, c, 0))
    /\ handler' = [handler EXCEPT ![c].pc = "closed"]
    /\ UNCHANGED <<redis, cache, svcVars, clock, received>>

\* --------------------------------------------------- _update_symbol_loop

Waking(id) == tasks[id].pc \in {"new", "sleep5", "sleep10"}

LoopCondition(id) ==
    /\ tasks[id].symbol \in DOMAIN symbol_subscribers
    /\ symbol_subscribers[tasks[id].symbol] # {}

\* CancelledError is thrown into the task where it is suspended (or before its
\* first step): the loop breaks, or the error leaves the coroutine.
TaskCancelled(id) ==
    /\ tasks[id].pc \in {"new", "sleep5", "sleep10", "set", "send"}
    /\ tasks[id].cancel # "no"
    /\ tasks' = [tasks EXCEPT ![id] = DoneTask]
    /\ UNCHANGED <<active_connections, subscriptions, symbol_subscribers,
                   update_tasks, handler, redis, cache, svcVars, clock, received>>

\* The while condition is false: the coroutine returns.
TaskExit(id) ==
    /\ Waking(id)
    /\ tasks[id].cancel = "no"
    /\ ~LoopCondition(id)
    /\ tasks' = [tasks EXCEPT ![id] = DoneTask]
    /\ UNCHANGED <<active_connections, subscriptions, symbol_subscribers,
                   update_tasks, handler, redis, cache, svcVars, clock, received>>

\* get_safe_ticker_data_sync returns (None, None, None): no tick, sleep(5).
TaskFetchNoData(id) ==
    /\ Waking(id)
    /\ tasks[id].cancel = "no"
    /\ LoopCondition(id)
    /\ tasks' = [tasks EXCEPT ![id].pc = "sleep5"]
    /\ UNCHANGED <<active_connections, subscriptions, symbol_subscribers,
                   update_tasks, handler, redis, cache, svcVars, clock, received>>

\* Mutant: the exception is not caught and ends the coroutine.
TaskFetchError_exit(id) ==
    /\ Waking(id)
    /\ tasks[id].cancel = "no"
    /\ LoopCondition(id)
    /\ tasks' = [tasks EXCEPT ![id] = DoneTask]
    /\ UNCHANGED <<active_connections, subscriptions, symbol_subscribers,
                   update_tasks, handler, redis, cache, svcVars, clock, received>>

\* Building the tick raises (ticker.info, a NaN volume, ...): sleep(10).
TaskFetchError(id) ==
    /\ Waking(id)
    /\ tasks[id].cancel = "no"
    /\ LoopCondition(id)
    /\ tasks' = [tasks EXCEPT ![id].pc = "sleep10"]
    /\ UNCHANGED <<active_connections, subscriptions, symbol_subscribers,
                   update_tasks, handler, redis, cache, svcVars, clock, received>>

\* Mutant: the data of the provider is dropped and the task sleeps.
TaskFetchData_idle(id, c, bar, ts) ==
    /\ Waking(id)
    /\ tasks[id].cancel = "no"
    /\ LoopCondition(id)
    /\ c = NoClient
    /\ clock' = ts
    /\ tasks' = [tasks EXCEPT ![id].pc = "sleep5"]
    /\ UNCHANGED <<active_connections, subscriptions, symbol_subscribers,
                   update_tasks, handler, redis, cache, svcVars, received>>

\* The provider returned data. With a Redis connection the task suspends in
\* redis_client.set; without one, set returns at once and the broadcast starts.
TaskFetchData(id, c, bar, ts) ==
    /\ Waking(id)
    /\ tasks[id].cancel = "no"
    /\ LoopCondition(id)
    /\ clock' = ts
    /\ LET data_dict == StockData(tasks[id].symbol, bar, ts)
       IN  IF redis = "none"
           THEN /\ BroadcastFirst(Mgr, id, c)
                /\ SetMgr(broadcast_to_symbol_subscribers(
                              [Mgr EXCEPT !.tasks[id].tick = data_dict], id, c))
           ELSE /\ c = NoClient
                /\ tasks' = [tasks EXCEPT ![id].pc = "set",
                                          ![id].tick = data_dict]
                /\ UNCHANGED <<active_connections, subscriptions,
                               symbol_subscribers, update_tasks>>
    /\ UNCHANGED <<handler, redis, cache, svcVars, received>>

\* redis_client.set returns; the broadcast runs to its first send.
TaskCacheWrite(id, c) ==
    /\ tasks[id].pc = "set"
    /\ tasks[id].cancel = "no"
    /\ cache' = RedisSet(redis, cache, RealtimeKey(tasks[id].symbol),
                         tasks[id].tick, RealtimeTTL)
    /\ BroadcastFirst(Mgr, id, c)
    /\ SetMgr(broadcast_to_symbol_subscribers(Mgr, id, c))
    /\ UNCHANGED <<handler, redis, svcVars, clock, received>>

\* The task is cancelled while its cache write is in flight: the write may
\* still reach Redis.
TaskCacheWriteCancelled(id) ==
    /\ tasks[id].pc = "set"
    /\ tasks[id].cancel # "no"
    /\ cache' = RedisSet(redis, cache, RealtimeKey(tasks[id].symbol),
                         tasks[id].tick, RealtimeTTL)
    /\ tasks' = [tasks EXCEPT ![id] = DoneTask]
    /\ UNCHANGED <<active_connections, subscriptions, symbol_subscribers,
                   update_tasks, handler, redis, svcVars, clock, received>>

\* send_text to the current client returns (ok) or raises; the loop goes on
\* to its next suspension, the send to client c. A task whose must-cancel
\* flag is set (it cancelled itself) gets here only when send_text did not
\* suspend (otherwise TaskCancelled).
TaskSend(id, ok, c) ==
    /\ tasks[id].pc = "send"
    /\ tasks[id].cancel # "fut"
    /\ LET cur == tasks[id].cur
           m1 == send_text_done(Mgr, cur, ok, id)
           m2 == [m1 EXCEPT !.tasks[id].failed = IF ok THEN @ ELSE @ \cup {cur}]
       IN  /\ NextSend(m2, id, c)
           /\ SetMgr(BroadcastResume(m2, id, c))
           /\ received' = IF ok THEN Deliver(received, cur, tasks[id].tick)
                          ELSE received
    /\ UNCHANGED <<handler, redis, cache, svcVars, clock>>

\* A cache entry's TTL runs out.
CacheExpire(key) ==
    /\ key \in DOMAIN cache
    /\ cache' = Drop(cache, key)
    /\ probe' = [probe EXCEPT !.written = IF key \in DOMAIN @ THEN Drop(@, key)
                                          ELSE @]
    /\ UNCHANGED <<wsVars, redis, stocks, stock_history, call, now, syncs,
                   resolver>>

\* ------------------------------------------------------------ price store

Days == 1..MaxDay

\* date.today() of the service calls.
Today == MaxDay

\* Symbols the service is called with.
ReqSymbols == {"abc", "ABC"}

\* Period strings the service is called with.
Periods == {"1D", "ALL", "2W"}

\* The row of table stocks for the symbol.
StockRow ==
    [yahoo_symbol |-> PyStr("ABC.NS"), company_name |-> PyStr("Abc Ltd"),
     exchange |-> PyStr("NSE"), sector |-> PyStr("Energy")]

\* A row of stock_history: a Bar with prices, and one whose numeric columns
\* are NULL (stored for a day the provider had only NaN for).
FullBar(d) ==
    [open |-> PyFloat(d), high |-> PyFloat(d), low |-> PyFloat(d),
     close |-> PyFloat(d), volume |-> PyInt(d)]

NullBar ==
    [open |-> None, high |-> None, low |-> None, close |-> None,
     volume |-> None]

\* A row of the table: the primary key, the (symbol, date) of the unique
\* index idx_symbol_date_unique, and the Bar.
Row(id, symbol, d, bar) ==
    [id |-> id, symbol |-> symbol, date |-> d, open |-> bar.open,
     high |-> bar.high, low |-> bar.low, close |-> bar.close,
     volume |-> bar.volume]

\* WHERE symbol = ... AND date = ...
RowsAt(hist, symbol, d) == {r \in hist : r.symbol = symbol /\ r.date = d}

BarDates(hist, symbol) == {r.date : r \in {x \in hist : x.symbol = symbol}}

\* The first row of ... WHERE symbol = ... AND date = ...
RowAt(hist, symbol, d) == CHOOSE r \in RowsAt(hist, symbol, d) : TRUE

MaxOf(S) == CHOOSE x \in S : \A y \in S : y <= x

MinOf(S) == CHOOSE x \in S : \A y \in S : x <= y

RECURSIVE Ascending(_)
\* ORDER BY date ASC
Ascending(S) ==
    IF S = {} THEN <<>> ELSE <<MinOf(S)>> \o Ascending(S \ {MinOf(S)})

\* The first row in the order of (date, id).
FirstRow(S) ==
    CHOOSE r \in S : \A x \in S :
        r.date < x.date \/ (r.date = x.date /\ r.id <= x.id)

RECURSIVE OrderByDate(_)
\* The rows of a result in the order of ORDER BY date ASC.
OrderByDate(S) ==
    IF S = {} THEN <<>> ELSE <<FirstRow(S)>> \o OrderByDate(S \ {FirstRow(S)})

\* ------------------------------------------------------------ StockService

QuoteKey(symbol) == <<"quote", Upper(symbol)>>

HistoryKey(symbol, period) == <<"history", Upper(symbol), period>>

\* No call yet. A call records what it did: the market-hours evaluations and
\* their results, store reads and writes, provider calls, the TTLs of its
\* calls of redis_client.set, the exceptions raised while it was served, the
\* windows of history it asked the provider for, and the window of dates
\* it read from the store.
IdleCall ==
    [fn |-> "", symbol |-> "", period |-> "", pc |-> "idle", result |-> None,
     market |-> <<>>, store_reads |-> FALSE, store_writes |-> FALSE,
     provider |-> FALSE, cache_set |-> <<>>, exc |-> {},
     fetched |-> <<>>, window |-> <<>>]

\* The service is not called in this run.
NoCalls == [IdleCall EXCEPT !.pc = "off"]

\* The results of _is_market_open(): the clock is outside the model.
MarketStates == BOOLEAN

\* What a step of a call meets: the result of _is_market_open(), the store
\* statement that raises (if any), and what the provider does.
StoreFailures == {"none", "quote", "stock", "lookup", "latest", "upsert", "read"}

ProviderOutcomes == {"rows", "nan", "empty", "raise"}

Inputs ==
    [open : MarketStates, fail : StoreFailures, provider : ProviderOutcomes]

Out(cl, ch, hist) == [call |-> cl, cache |-> ch, stock_history |-> hist]

\* Mutant: a cache hit is not returned.
get_quote_cache_skip(r, ch, cl, hist) ==
    Out([cl EXCEPT !.pc = "market"], ch, hist)

\* get_quote, lines 23-30.
get_quote_cache(r, ch, cl, hist) ==
    LET cached_data == RedisGet(r, ch, QuoteKey(cl.symbol))
    IN  IF Truthy(cached_data)
        THEN Out([cl EXCEPT !.pc = "done", !.result = cached_data], ch, hist)
        ELSE Out([cl EXCEPT !.pc = "market"], ch, hist)

\* float(x) raises TypeError for None.
FloatRaises(x) == x = None

_get_latest_db_quote(stk, hist, symbol, ts, fail) ==
    LET sym == Upper(symbol)
        dates == BarDates(hist, sym)
    IN  IF fail = "quote" THEN None
        ELSE IF dates = {} THEN None
        ELSE IF fail = "stock" THEN None
        ELSE IF sym \notin DOMAIN stk THEN None
        ELSE LET latest_row == RowAt(hist, sym, MaxOf(dates))
                 stock_info == stk[sym]
             IN  IF \/ FloatRaises(latest_row.close)
                    \/ FloatRaises(latest_row.high)
                    \/ FloatRaises(latest_row.low)
                    \/ FloatRaises(latest_row.open)
                 THEN None
                 ELSE Dict([stock |-> Dict(
                               [symbol |-> PyStr(sym),
                                name |-> stock_info.company_name,
                                exchange |-> stock_info.exchange,
                                currentPrice |-> PyFloat(latest_row.close.v),
                                change |-> PyFloat(0),
                                changePercent |-> PyFloat(0),
                                volume |-> IF Truthy(latest_row.volume)
                                           THEN PyInt(latest_row.volume.v)
                                           ELSE PyInt(0),
                                dayHigh |-> PyFloat(latest_row.high.v),
                                dayLow |-> PyFloat(latest_row.low.v),
                                open |-> PyFloat(latest_row.open.v),
                                sector |-> stock_info.sector]),
                            source |-> PyStr("database"),
                            timestamp |-> PyStr(isoformat(ts))])

\* get_quote, lines 32-38.
get_quote_offhours(r, ch, cl, stk, hist, ts, in) ==
    IF in.open
    THEN Out([cl EXCEPT !.pc = "fetch", !.market = Append(@, TRUE)], ch, hist)
    ELSE LET db_quote == _get_latest_db_quote(stk, hist, cl.symbol, ts, in.fail)
             cl1 == [cl EXCEPT !.market = Append(@, FALSE),
                               !.store_reads = TRUE,
                               !.exc = IF \/ in.fail = "quote"
                                          \/ /\ in.fail = "stock"
                                             /\ BarDates(hist, Upper(cl.symbol)) # {}
                                       THEN {in.fail} ELSE {}]
             ttl == RealtimeTTL * 10
         IN  IF Truthy(db_quote)
             THEN Out([cl1 EXCEPT !.pc = "done", !.result = db_quote,
                                  !.cache_set = <<ttl>>],
                      RedisSet(r, ch, QuoteKey(cl.symbol), db_quote, ttl), hist)
             ELSE Out([cl1 EXCEPT !.pc = "fetch"], ch, hist)

\* The provider's daily rows, of which the last is the latest.
ProviderRow(d) ==
    [Open |-> PyFloat(d), High |-> PyFloat(d), Low |-> PyFloat(d),
     Close |-> PyFloat(d), Volume |-> PyFloat(d)]

NaNRow ==
    [Open |-> NaN, High |-> NaN, Low |-> NaN, Close |-> NaN, Volume |-> NaN]

\* A row with fields the provider reports as 0 next to a NaN.
ZeroRow ==
    [Open |-> PyFloat(0), High |-> NaN, Low |-> PyFloat(0),
     Close |-> PyFloat(0), Volume |-> PyFloat(0)]

\* The provider is asked only when the stocks row is found.
StockFound(stk, symbol, fail) == fail # "stock" /\ Upper(symbol) \in DOMAIN stk

_fetch_quote_from_yfinance(stk, symbol, ts, in) ==
    IF ~StockFound(stk, symbol, in.fail) THEN None
    ELSE IF in.provider \in {"empty", "raise"} THEN None
    ELSE LET stock_info == stk[Upper(symbol)]
             last == IF in.provider = "nan" THEN NaNRow ELSE ProviderRow(Today)
             current_price == last.Close
             previous_price == IF Today > 1 THEN ProviderRow(Today - 1).Close
                               ELSE current_price
             change == IF current_price = NaN THEN NaN
                       ELSE PyFloat(current_price.v - previous_price.v)
             stock_data ==
                 Dict([symbol |-> PyStr(Upper(symbol)),
                       name |-> stock_info.company_name,
                       exchange |-> stock_info.exchange,
                       currentPrice |-> current_price,
                       change |-> change,
                       changePercent |->
                           IF change = NaN THEN NaN
                           ELSE IF previous_price.v # 0
                           THEN PyFloat((change.v * 100) \div previous_price.v)
                           ELSE PyInt(0),
                       volume |-> IF last.Volume = NaN THEN PyInt(0)
                                  ELSE PyInt(last.Volume.v),
                       marketCap |-> None,
                       pe |-> None,
                       sector |-> stock_info.sector,
                       high52Week |-> None,
                       low52Week |-> None,
                       dividendYield |-> None,
                       dayHigh |-> last.High,
                       dayLow |-> last.Low,
                       open |-> last.Open])
         IN  Dict([stock |-> sanitize_for_json(stock_data),
                   source |-> PyStr("yfinance"),
                   timestamp |-> PyStr(isoformat(ts))])

\* Mutant: the live quote is cached with the base TTL whatever the hour.
get_quote_live_base_ttl(r, ch, cl, stk, hist, ts, in) ==
    LET quote_data == _fetch_quote_from_yfinance(stk, cl.symbol, ts, in)
        found == StockFound(stk, cl.symbol, in.fail)
        cl1 == [cl EXCEPT !.store_reads = TRUE, !.provider = found,
                          !.exc = @ \cup (IF in.fail = "stock" THEN {"stock"}
                                          ELSE IF found /\ in.provider = "raise"
                                          THEN {"provider"} ELSE {})]
    IN  IF Truthy(quote_data)
        THEN Out([cl1 EXCEPT !.pc = "done", !.result = quote_data,
                             !.market = Append(@, in.open),
                             !.cache_set = <<RealtimeTTL>>],
                 RedisSet(r, ch, QuoteKey(cl.symbol), quote_data, RealtimeTTL),
                 hist)
        ELSE Out([cl1 EXCEPT !.pc = "done", !.result = None], ch, hist)

\* Mutant: the live quote is also stored, as the Bar of today.
get_quote_live_persist(r, ch, cl, stk, hist, ts, in) ==
    LET quote_data == _fetch_quote_from_yfinance(stk, cl.symbol, ts, in)
        found == StockFound(stk, cl.symbol, in.fail)
        cl1 == [cl EXCEPT !.store_reads = TRUE, !.provider = found,
                          !.exc = @ \cup (IF in.fail = "stock" THEN {"stock"}
                                          ELSE IF found /\ in.provider = "raise"
                                          THEN {"provider"} ELSE {})]
        ttl == IF in.open THEN RealtimeTTL ELSE RealtimeTTL * 10
    IN  IF Truthy(quote_data)
        THEN Out([cl1 EXCEPT !.pc = "done", !.result = quote_data,
                             !.market = Append(@, in.open),
                             !.cache_set = <<ttl>>],
                 RedisSet(r, ch, QuoteKey(cl.symbol), quote_data, ttl),
                 hist \cup {Row(0, Upper(cl.symbol), Today, NullBar)})
        ELSE Out([cl1 EXCEPT !.pc = "done", !.result = None], ch, hist)

\* get_quote, lines 40-52.
get_quote_live(r, ch, cl, stk, hist, ts, in) ==
    LET quote_data == _fetch_quote_from_yfinance(stk, cl.symbol, ts, in)
        found == StockFound(stk, cl.symbol, in.fail)
        cl1 == [cl EXCEPT !.store_reads = TRUE, !.provider = found,
                          !.exc = @ \cup (IF in.fail = "stock" THEN {"stock"}
                                          ELSE IF found /\ in.provider = "raise"
                                          THEN {"provider"} ELSE {})]
        ttl == IF in.open THEN RealtimeTTL ELSE RealtimeTTL * 10
    IN  IF Truthy(quote_data)
        THEN Out([cl1 EXCEPT !.pc = "done", !.result = quote_data,
                             !.market = Append(@, in.open),
                             !.cache_set = <<ttl>>],
                 RedisSet(r, ch, QuoteKey(cl.symbol), quote_data, ttl), hist)
        ELSE Out([cl1 EXCEPT !.pc = "done", !.result = None], ch, hist)

\* get_history, lines 56-63.
get_history_cache(r, ch, cl, hist) ==
    LET cached_data == RedisGet(r, ch, HistoryKey(cl.symbol, cl.period))
    IN  IF Truthy(cached_data)
        THEN Out([cl EXCEPT !.pc = "done", !.result = cached_data], ch, hist)
        ELSE Out([cl EXCEPT !.pc = "serve"], ch, hist)

_get_yahoo_symbol(stk, symbol, fail) ==
    IF fail = "lookup" THEN None
    ELSE IF Upper(symbol) \in DOMAIN stk THEN stk[Upper(symbol)].yahoo_symbol
    ELSE None

_get_latest_date_in_db(hist, symbol, fail) ==
    IF fail = "latest" THEN None
    ELSE IF BarDates(hist, Upper(symbol)) = {} THEN None
    ELSE Date(MaxOf(BarDates(hist, Upper(symbol))))

\* Mutant: a period that is not in the mapping gets the widest entry.
PeriodDays_widest(period) ==
    CASE period = "ALL" -> 0
      [] period = "1D" -> 1
      [] period = "1W" -> 7
      [] period = "15D" -> 15
      [] period = "1M" -> 30
      [] period = "6M" -> 180
      [] period = "1Y" -> 365
      [] OTHER -> 365 * 5

\* The days of a period string; 0 stands for 'ALL' (no start date).
PeriodDays(period) ==
    CASE period = "ALL" -> 0
      [] period = "1D" -> 1
      [] period = "1W" -> 7
      [] period = "15D" -> 15
      [] period = "1M" -> 30
      [] period = "6M" -> 180
      [] period = "1Y" -> 365
      [] period = "5Y" -> 365 * 5
      [] OTHER -> 180

\* <<start_date, end_date>>
_get_period_dates(period) ==
    IF Upper(period) = "ALL" THEN <<None, Date(Today)>>
    ELSE <<Date(Today - PeriodDays(Upper(period))), Date(Today)>>

\* get_history, lines 82-90: need_fetch.
NeedFetch(latest_db_date) ==
    IF latest_db_date = None THEN TRUE ELSE latest_db_date.v < Today - 1

\* get_history, lines 82-90: fetch_start_date.
FetchStartDate(latest_db_date) ==
    IF latest_db_date = None THEN None ELSE Date(latest_db_date.v + 1)

\* The request _fetch_and_store_history makes: history(start=start_date,
\* end=tomorrow), or history(period='max') (no start, no end).
HistoryRequest(start_date) ==
    IF Truthy(start_date)
    THEN [start |-> start_date, end |-> Date(Today + 1)]
    ELSE [start |-> None, end |-> None]

\* ticker.history(start=..., end=tomorrow), or history(period='max').
ProviderHistory(start_date, outcome) ==
    LET from == IF Truthy(start_date) THEN start_date.v ELSE 1
        days == IF outcome = "empty" THEN {} ELSE {d \in Days : from <= d /\ d <= Today}
    IN  [d \in days |-> IF outcome = "nan" /\ d = Today THEN NaNRow
                        ELSE IF outcome = "zero" /\ d = Today THEN ZeroRow
                        ELSE ProviderRow(d)]

\* Mutant: a NaN is stored as zero.
FloatOrNone_zero(x) == IF x = NaN THEN PyFloat(0) ELSE PyFloat(x.v)

\* float(x) if not pd.isna(x) else None
FloatOrNone(x) == IF x = NaN THEN None ELSE PyFloat(x.v)

IntOrNone(x) == IF x = NaN THEN None ELSE PyInt(x.v)

\* _store_history_to_db, lines 368-378: one parameter set per row of the
\* provider's frame, in the order of the frame (by date).
insert_data(symbol, data) ==
    LET dates == Ascending(DOMAIN data)
    IN  [i \in DOMAIN dates |->
            [symbol |-> Upper(symbol),
             date |-> dates[i],
             open |-> FloatOrNone(data[dates[i]].Open),
             high |-> FloatOrNone(data[dates[i]].High),
             low |-> FloatOrNone(data[dates[i]].Low),
             close |-> FloatOrNone(data[dates[i]].Close),
             volume |-> IntOrNone(data[dates[i]].Volume)]]

\* The next value of the primary key.
NextId(hist) == IF hist = {} THEN 1 ELSE MaxOf({r.id : r \in hist}) + 1

\* Mutant: a plain INSERT, whatever the table holds.
plain_insert(hist, p) == "insert"

\* What the statement does with one parameter set: ON CONFLICT (symbol, date)
\* DO UPDATE when the unique index holds a row of the key, else the INSERT.
on_conflict(hist, p) ==
    IF RowsAt(hist, p.symbol, p.date) # {} THEN "update" ELSE "insert"

\* Mutant: DO UPDATE adds the EXCLUDED volume to the volume of the row.
write_row_accumulate(hist, kind, p) ==
    IF kind = "update"
    THEN {IF r \in RowsAt(hist, p.symbol, p.date)
          THEN Row(r.id, r.symbol, r.date,
                   [p EXCEPT !.volume = IF r.volume # None /\ @ # None
                                        THEN PyInt(r.volume.v + @.v) ELSE @])
          ELSE r : r \in hist}
    ELSE hist \cup {Row(NextId(hist), p.symbol, p.date, p)}

\* Mutant: DO UPDATE reaches every row of the date, whatever its symbol.
write_row_any_symbol(hist, kind, p) ==
    IF kind = "update"
    THEN {IF r.date = p.date THEN Row(r.id, r.symbol, r.date, p) ELSE r :
             r \in hist}
    ELSE hist \cup {Row(NextId(hist), p.symbol, p.date, p)}

\* The effect of one parameter set on the table: the row of the key takes the
\* EXCLUDED values, or a new row is inserted.
write_row(hist, kind, p) ==
    IF kind = "update"
    THEN {IF r \in RowsAt(hist, p.symbol, p.date)
          THEN Row(r.id, r.symbol, r.date, p) ELSE r : r \in hist}
    ELSE hist \cup {Row(NextId(hist), p.symbol, p.date, p)}

\* INSERT ... ON CONFLICT (symbol, date) DO UPDATE SET ... for one parameter
\* set.
upsert_row(hist, p) == write_row(hist, on_conflict(hist, p), p)

RECURSIVE executemany(_, _)
\* self.db.execute(query, insert_data)
executemany(hist, params) ==
    IF params = <<>> THEN hist
    ELSE executemany(upsert_row(hist, Head(params)), Tail(params))

\* The statement and the commit; an exception is followed by a rollback.
_store_history_to_db(hist, symbol, data, fail) ==
    IF fail = "upsert" \/ insert_data(symbol, data) = <<>> THEN hist
    ELSE executemany(hist, insert_data(symbol, data))

_fetch_and_store_history(hist, symbol, start_date, in) ==
    IF in.provider = "raise" THEN hist
    ELSE _store_history_to_db(hist, symbol,
                              ProviderHistory(start_date, in.provider), in.fail)

FloatOrZero(x) == IF x # None THEN PyFloat(x.v) ELSE PyInt(0)

IntOrZero(x) == IF x # None THEN PyInt(x.v) ELSE PyInt(0)

_get_history_from_db(hist, symbol, start_date, end_date, fail) ==
    IF fail = "read" THEN List(<<>>)
    ELSE LET sym == Upper(symbol)
             rows == OrderByDate({r \in hist :
                         /\ r.symbol = sym
                         /\ Truthy(start_date) => r.date >= start_date.v
                         /\ Truthy(end_date) => r.date <= end_date.v})
         IN  List([i \in DOMAIN rows |->
                     LET row == rows[i]
                     IN  Dict([timestamp |-> PyStr(strftime(row.date)),
                               open |-> FloatOrZero(row.open),
                               high |-> FloatOrZero(row.high),
                               low |-> FloatOrZero(row.low),
                               close |-> FloatOrZero(row.close),
                               volume |-> IntOrZero(row.volume)])])

HistoryResponse(data, source, ts, period, error) ==
    Dict([data |-> data, source |-> PyStr(source),
          timestamp |-> PyStr(isoformat(ts)), period |-> PyStr(period),
          records |-> PyInt(Len(data.v)), error |-> error])

\* Mutant: every response built from the store is tagged store-only.
SourceTag_database(need_fetch) == "database"

\* get_history, line 102: the provenance of the response.
SourceTag(need_fetch) ==
    IF ~need_fetch THEN "database" ELSE "database+yfinance"

\* get_history, lines 65-123.
get_history_serve(r, ch, cl, stk, hist, ts, in) ==
    LET yahoo_symbol == _get_yahoo_symbol(stk, cl.symbol, in.fail)
        cl1 == [cl EXCEPT !.store_reads = TRUE]
    IN  IF ~Truthy(yahoo_symbol)
        THEN Out([cl1 EXCEPT !.pc = "done",
                     !.exc = IF in.fail = "lookup" THEN {"lookup"} ELSE {},
                     !.result = HistoryResponse(List(<<>>), "error", ts, cl.period,
                                    PyStr("Symbol not found in database"))],
                 ch, hist)
        ELSE LET range == _get_period_dates(cl.period)
                 latest_db_date == _get_latest_date_in_db(hist, cl.symbol, in.fail)
                 need_fetch == NeedFetch(latest_db_date)
                 fetch_start_date == FetchStartDate(latest_db_date)
                 hist1 == IF need_fetch
                          THEN _fetch_and_store_history(hist, cl.symbol,
                                                        fetch_start_date, in)
                          ELSE hist
                 history_data == _get_history_from_db(hist1, cl.symbol,
                                     range[1], range[2], in.fail)
                 response_data ==
                     HistoryResponse(history_data,
                         SourceTag(need_fetch),
                         ts, cl.period, None)
                 raised ==
                     (IF in.fail \in {"latest", "read"} THEN {in.fail} ELSE {})
                     \cup (IF need_fetch /\ in.provider = "raise"
                           THEN {"provider"} ELSE {})
                     \cup (IF /\ need_fetch
                              /\ in.provider \in {"rows", "nan"}
                              /\ in.fail = "upsert"
                           THEN {"upsert"} ELSE {})
             IN  Out([cl1 EXCEPT !.pc = "done", !.result = response_data,
                                 !.provider = need_fetch,
                                 !.fetched = IF need_fetch
                                     THEN <<HistoryRequest(fetch_start_date)>>
                                     ELSE <<>>,
                                 !.window = range,
                                 !.store_writes = /\ need_fetch
                                                  /\ in.provider \in {"rows", "nan"}
                                                  /\ in.fail # "upsert",
                                 !.cache_set = <<HistoricalTTL>>,
                                 !.exc = raised],
                     RedisSet(r, ch, HistoryKey(cl.symbol, cl.period),
                              response_data, HistoricalTTL),
                     hist1)

\* The step of the call in progress, whichever it is.
ServiceStep(r, ch, cl, stk, hist, ts, in) ==
    CASE cl.fn = "quote" /\ cl.pc = "get" -> get_quote_cache(r, ch, cl, hist)
      [] cl.fn = "quote" /\ cl.pc = "market" ->
             get_quote_offhours(r, ch, cl, stk, hist, ts, in)
      [] cl.fn = "quote" /\ cl.pc = "fetch" ->
             get_quote_live(r, ch, cl, stk, hist, ts, in)
      [] cl.fn = "history" /\ cl.pc = "get" -> get_history_cache(r, ch, cl, hist)
      [] cl.fn = "history" /\ cl.pc = "serve" ->
             get_history_serve(r, ch, cl, stk, hist, ts, in)
      [] OTHER -> Out(cl, ch, hist)

SetOut(o) ==
    /\ call' = o.call
    /\ cache' = o.cache
    /\ stock_history' = o.stock_history
    /\ UNCHANGED <<wsVars, probe, redis, stocks, now, syncs, resolver>>

\* A request arrives: GET /quote/{symbol}.
StartQuote(symbol) ==
    /\ call.pc \in {"idle", "done"}
    /\ now < MaxCalls
    /\ now' = now + 1
    /\ call' = [IdleCall EXCEPT !.fn = "quote", !.symbol = symbol, !.pc = "get"]
    /\ UNCHANGED <<wsVars, probe, redis, cache, stocks, stock_history, syncs, resolver>>

\* A request arrives: GET /history/{symbol}?period=...
StartHistory(symbol, period) ==
    /\ call.pc \in {"idle", "done"}
    /\ now < MaxCalls
    /\ now' = now + 1
    /\ call' = [IdleCall EXCEPT !.fn = "history", !.symbol = symbol,
                                !.period = period, !.pc = "get"]
    /\ UNCHANGED <<wsVars, probe, redis, cache, stocks, stock_history, syncs, resolver>>

QuoteCache ==
    /\ call.fn = "quote" /\ call.pc = "get"
    /\ SetOut(get_quote_cache(redis, cache, call, stock_history))

QuoteOffHours(in) ==
    /\ call.fn = "quote" /\ call.pc = "market"
    /\ SetOut(get_quote_offhours(redis, cache, call, stocks, stock_history, now, in))

QuoteLive(in) ==
    /\ call.fn = "quote" /\ call.pc = "fetch"
    /\ SetOut(get_quote_live(redis, cache, call, stocks, stock_history, now, in))

HistoryCache ==
    /\ call.fn = "history" /\ call.pc = "get"
    /\ SetOut(get_history_cache(redis, cache, call, stock_history))

HistoryServe(in) ==
    /\ call.fn = "history" /\ call.pc = "serve"
    /\ SetOut(get_history_serve(redis, cache, call, stocks, stock_history, now, in))

\* ------------------------------------------- concurrent history syncs
\* Steps 3 to 5 of get_history on the sessions get_db hands out, one per
\* request. Each session is one transaction of the default isolation level
\* (READ COMMITTED): a statement sees the committed rows and the session's
\* own writes, and the writes reach the table at commit.

Sessions == 1..NSyncs

\* data is the frame the provider returned, batch its parameter sets.
IdleSync ==
    [pc |-> "idle", symbol |-> "", start |-> None, data |-> << >>,
     batch |-> <<>>, ops |-> <<>>, outcome |-> "", runs |-> 0]

\* What the provider does for a sync: as for a call, or a frame whose last
\* row has zeros.
SyncOutcomes == ProviderOutcomes \cup {"zero"}

\* No sync runs on the session.
OffSync == [IdleSync EXCEPT !.pc = "off"]

RECURSIVE commit(_, _)
\* self.db.commit(): the writes of the transaction reach the table.
commit(hist, ops) ==
    IF ops = <<>> THEN hist
    ELSE commit(write_row(hist, Head(ops).kind, Head(ops).p), Tail(ops))

\* Mutant: the rows written before the exception stay.
rollback_partial(hist, ops) == commit(hist, ops)

\* self.db.rollback(): the writes of the transaction are dropped.
rollback(hist, ops) == hist

\* Mutant: no unique index, nothing to wait for.
Locked_never(ss, i, p) == FALSE

\* The unique index holds an entry of p's key written by another session's
\* open transaction: the statement waits for that transaction to end.
Locked(ss, i, p) ==
    \E j \in DOMAIN ss \ {i} :
       /\ ss[j].pc = "exec"
       /\ \E k \in DOMAIN ss[j].ops :
             /\ ss[j].ops[k].p.symbol = p.symbol
             /\ ss[j].ops[k].p.date = p.date

\* get_history, lines 78-90: the latest date of the symbol and the decision
\* to fetch.
SyncLatest(i, symbol, fail) ==
    /\ syncs[i].pc \in {"idle", "done"}
    /\ syncs[i].runs < MaxRuns
    /\ LET latest_db_date == _get_latest_date_in_db(stock_history, symbol, fail)
           s == [IdleSync EXCEPT !.symbol = symbol, !.runs = syncs[i].runs + 1]
       IN  syncs' = [syncs EXCEPT ![i] =
                IF NeedFetch(latest_db_date)
                THEN [s EXCEPT !.pc = "fetch",
                               !.start = FetchStartDate(latest_db_date)]
                ELSE [s EXCEPT !.pc = "done", !.outcome = "fresh"]]
    /\ UNCHANGED <<wsVars, probe, redis, cache, stocks, stock_history, call, now, resolver>>

\* _fetch_and_store_history, lines 345-362, and the parameter sets of
\* _store_history_to_db, lines 368-378.
SyncFetch(i, outcome) ==
    /\ syncs[i].pc = "fetch"
    /\ LET s == syncs[i]
           hist == ProviderHistory(s.start, outcome)
           insert == insert_data(s.symbol, hist)
       IN  syncs' = [syncs EXCEPT ![i] =
                CASE outcome = "raise" ->
                         [s EXCEPT !.pc = "done", !.outcome = "raise"]
                  [] outcome # "raise" /\ insert = <<>> ->
                         [s EXCEPT !.pc = "done", !.outcome = "empty"]
                  [] OTHER -> [s EXCEPT !.pc = "exec", !.data = hist,
                                        !.batch = insert]]
    /\ UNCHANGED <<wsVars, probe, redis, cache, stocks, stock_history, call, now, resolver>>

\* self.db.execute(query, insert_data), line 394: the next parameter set.
SyncRow(i) ==
    /\ syncs[i].pc = "exec"
    /\ Len(syncs[i].ops) < Len(syncs[i].batch)
    /\ LET p == syncs[i].batch[Len(syncs[i].ops) + 1]
           seen == commit(stock_history, syncs[i].ops)
       IN  /\ ~Locked(syncs, i, p)
           /\ syncs' = [syncs EXCEPT ![i].ops =
                  Append(@, [kind |-> on_conflict(seen, p), p |-> p])]
    /\ UNCHANGED <<wsVars, probe, redis, cache, stocks, stock_history, call, now, resolver>>

\* self.db.commit(), line 395.
SyncCommit(i) ==
    /\ syncs[i].pc = "exec"
    /\ Len(syncs[i].ops) = Len(syncs[i].batch)
    /\ stock_history' = commit(stock_history, syncs[i].ops)
    /\ syncs' = [syncs EXCEPT ![i].pc = "done", ![i].outcome = "committed"]
    /\ UNCHANGED <<wsVars, probe, redis, cache, stocks, call, now, resolver>>

\* The statement or the commit raises: the except clause, lines 398-400.
SyncRollback(i) ==
    /\ syncs[i].pc = "exec"
    /\ stock_history' = rollback(stock_history, syncs[i].ops)
    /\ syncs' = [syncs EXCEPT ![i].pc = "done", ![i].outcome = "rolledback"]
    /\ UNCHANGED <<wsVars, probe, redis, cache, stocks, call, now, resolver>>

\* ---------------------------------------------------- symbol resolver
\* get_safe_ticker_data_sync. Symbols are sequences of characters here, so
\* that lstrip, upper, endswith, the slice and the f-strings are computed.

LowerCase ==
    <<"a", "b", "c", "d", "e", "f", "g", "h", "i", "j", "k", "l", "m",
      "n", "o", "p", "q", "r", "s", "t", "u", "v", "w", "x", "y", "z">>

UpperCase ==
    <<"A", "B", "C", "D", "E", "F", "G", "H", "I", "J", "K", "L", "M",
      "N", "O", "P", "Q", "R", "S", "T", "U", "V", "W", "X", "Y", "Z">>

UpperChar(c) ==
    IF \E k \in DOMAIN LowerCase : LowerCase[k] = c
    THEN UpperCase[CHOOSE k \in DOMAIN LowerCase : LowerCase[k] = c]
    ELSE c

\* str.upper() of a sequence of characters
upper(s) == [k \in DOMAIN s |-> UpperChar(s[k])]

RECURSIVE lstrip(_, _)
\* str.lstrip(c)
lstrip(s, c) ==
    IF s # <<>> /\ Head(s) = c THEN lstrip(Tail(s), c) ELSE s

\* str.endswith(suffix)
endswith(s, suffix) ==
    /\ Len(s) >= Len(suffix)
    /\ SubSeq(s, Len(s) - Len(suffix) + 1, Len(s)) = suffix

\* s[:-n]
DropLast(s, n) == SubSeq(s, 1, Len(s) - n)

INDEX_SYMBOLS ==
    {<<"^", "N", "S", "E", "I">>,
     <<"^", "N", "S", "E", "B", "A", "N", "K">>,
     <<"^", "D", "J", "I">>,
     <<"^", "F", "T", "S", "E">>,
     <<"^", "B", "S", "E", "S", "N">>}

DotNS == <<".", "N", "S">>

DotBO == <<".", "B", "O">>

DotBSE == <<".", "B", "S", "E">>

\* Mutant: for a .BSE symbol the .NS variant first, then .BO.
symbol_variations_ns_first(symbol) ==
    LET clean_symbol == upper(lstrip(symbol, "$"))
    IN  CASE clean_symbol \in INDEX_SYMBOLS -> <<clean_symbol>>
          [] clean_symbol \notin INDEX_SYMBOLS /\ endswith(clean_symbol, DotBSE) ->
                 <<DropLast(clean_symbol, 4) \o DotNS,
                   DropLast(clean_symbol, 4) \o DotBO>>
          [] OTHER ->
                 IF endswith(clean_symbol, DotNS) \/ endswith(clean_symbol, DotBO)
                 THEN <<clean_symbol>>
                 ELSE <<clean_symbol \o DotNS, clean_symbol \o DotBO>>

\* Mutant: the suffix rules without the index rule.
symbol_variations_no_index(symbol) ==
    LET clean_symbol == upper(lstrip(symbol, "$"))
    IN  CASE endswith(clean_symbol, DotBSE) ->
                 <<DropLast(clean_symbol, 4) \o DotBO,
                   DropLast(clean_symbol, 4) \o DotNS>>
          [] OTHER ->
                 IF endswith(clean_symbol, DotNS) \/ endswith(clean_symbol, DotBO)
                 THEN <<clean_symbol>>
                 ELSE <<clean_symbol \o DotNS, clean_symbol \o DotBO>>

\* Lines 51-61: the candidates, in the order they are tried.
symbol_variations(symbol) ==
    LET clean_symbol == upper(lstrip(symbol, "$"))
    IN  CASE clean_symbol \in INDEX_SYMBOLS -> <<clean_symbol>>
          [] clean_symbol \notin INDEX_SYMBOLS /\ endswith(clean_symbol, DotBSE) ->
                 <<DropLast(clean_symbol, 4) \o DotBO,
                   DropLast(clean_symbol, 4) \o DotNS>>
          [] OTHER ->
                 IF endswith(clean_symbol, DotNS) \/ endswith(clean_symbol, DotBO)
                 THEN <<clean_symbol>>
                 ELSE <<clean_symbol \o DotNS, clean_symbol \o DotBO>>

\* What ticker.history(period="6mo") does for a variant.
HistoryOutcomes == {"data", "empty", "raise"}

\* The result (ticker, hist, variant) of the not-found outcome.
NotFound == [ticker |-> None, hist |-> None, variant |-> None]

IdleResolve ==
    [pc |-> "idle", symbol |-> <<>>, symbol_variations |-> <<>>,
     tried |-> <<>>, result |-> NotFound, calls |-> 0]

\* The resolver is not called in this run.
OffResolve == [IdleResolve EXCEPT !.pc = "off"]

\* Mutant: an exception of the provider ends the loop.
try_variant_abort(rs, outcome) ==
    LET variant == rs.symbol_variations[Len(rs.tried) + 1]
        rs1 == [rs EXCEPT !.tried = Append(@, [variant |-> variant,
                                               outcome |-> outcome])]
    IN  IF outcome = "data"
        THEN [rs1 EXCEPT !.pc = "done",
                         !.result = [ticker |-> PyStr(variant),
                                     hist |-> PyStr("hist"),
                                     variant |-> PyStr(variant)]]
        ELSE IF Len(rs1.tried) = Len(rs.symbol_variations) \/ outcome = "raise"
        THEN [rs1 EXCEPT !.pc = "done", !.result = NotFound]
        ELSE rs1

\* Lines 63-73: one turn of the loop over symbol_variations, and the
\* return after the loop when that was the last variant.
try_variant(rs, outcome) ==
    LET variant == rs.symbol_variations[Len(rs.tried) + 1]
        rs1 == [rs EXCEPT !.tried = Append(@, [variant |-> variant,
                                               outcome |-> outcome])]
    IN  IF outcome = "data"
        THEN [rs1 EXCEPT !.pc = "done",
                         !.result = [ticker |-> PyStr(variant),
                                     hist |-> PyStr("hist"),
                                     variant |-> PyStr(variant)]]
        ELSE IF Len(rs1.tried) = Len(rs.symbol_variations)
        THEN [rs1 EXCEPT !.pc = "done", !.result = NotFound]
        ELSE rs1

\* The symbols the resolver is called with.
ResolveSymbols ==
    {<<"a", "b">>, <<"$", "a", "b">>, <<"$", "$", "A", "B">>,
     <<"a", "b", ".", "b", "s", "e">>, <<"$", "A", "B", ".", "B", "S", "E">>,
     <<"a", "b", ".", "n", "s">>, <<"A", "B", ".", "B", "O">>,
     <<"^", "n", "s", "e", "i">>, <<"$", "^", "D", "J", "I">>,
     <<".", "B", "S", "E">>}

\* get_safe_ticker_data_sync(symbol) is called: lines 51-61.
ResolveStart(symbol) ==
    /\ resolver.pc \in {"idle", "done"}
    /\ resolver.calls < MaxResolves
    /\ resolver' = [IdleResolve EXCEPT !.pc = "try", !.symbol = symbol,
                       !.symbol_variations = symbol_variations(symbol),
                       !.calls = resolver.calls + 1]
    /\ UNCHANGED <<wsVars, probe, redis, cache, stocks, stock_history, call, now, syncs>>

\* The loop tries the next variant.
ResolveTry(outcome) ==
    /\ resolver.pc = "try"
    /\ resolver' = try_variant(resolver, outcome)
    /\ UNCHANGED <<wsVars, probe, redis, cache, stocks, stock_history, call, now, syncs>>

\* ---------------------------------------------------------- specification

InitWS ==
    /\ active_connections = {}
    /\ subscriptions = << >>
    /\ symbol_subscribers = << >>
    /\ update_tasks = << >>
    /\ tasks = [id \in 1..MaxTasks |-> DoneTask]
    /\ handler = [c \in Clients |-> [pc |-> "none", push |-> <<>>]]
    /\ clock = 0
    /\ received = [c \in Clients |-> << >>]

\* No client connects in this run.
InitNoClients ==
    /\ active_connections = {}
    /\ subscriptions = << >>
    /\ symbol_subscribers = << >>
    /\ update_tasks = << >>
    /\ tasks = [id \in 1..MaxTasks |-> DoneTask]
    /\ handler = [c \in Clients |-> [pc |-> "off", push |-> <<>>]]
    /\ clock = 0
    /\ received = [c \in Clients |-> << >>]

InitCache ==
    /\ redis \in {"none", "up", "down"}
    /\ cache = << >>

\* The service is not called in this run.
InitNoCalls ==
    /\ stocks = << >>
    /\ stock_history = {}
    /\ call = NoCalls
    /\ now = 0
    /\ syncs = [i \in Sessions |-> OffSync]
    /\ resolver = OffResolve
    /\ probe = IdleProbe

\* The table with a priced Bar for the days of full and a NULL Bar for the
\* days of null, inserted in the order of the days.
StoreOf(full, null) ==
    {Row(Cardinality({e \in full \cup null : e <= d}), "ABC", d,
         IF d \in full THEN FullBar(d) ELSE NullBar) : d \in full \cup null}

\* The Bars of another symbol, stored before the run: one with prices and one
\* with NULL columns.
OtherRows ==
    {Row(11, "XYZ", 1, FullBar(1)), Row(12, "XYZ", MaxDay, NullBar)}

\* The store when the service starts: the symbol is listed or not; a listed
\* symbol has Bars for any of the days, with prices or with NULL columns.
InitSvc ==
    /\ stocks \in {<< >>, [s \in {"ABC"} |-> StockRow]}
    /\ stock_history \in
          IF stocks = << >> THEN {{}}
          ELSE {StoreOf(full, null \ full) :
                    full \in SUBSET Days, null \in SUBSET Days}
    /\ call = IdleCall
    /\ now = 0
    /\ syncs = [i \in Sessions |-> OffSync]
    /\ resolver = OffResolve
    /\ probe = IdleProbe

Choice == Clients \cup {NoClient}

\* The "symbols" lists of the messages clients send: every single symbol, a
\* symbol listed twice, and two symbols at once.
Messages ==
    {<<s>> : s \in RawSymbols} \cup {<<"abc", "abc">>, <<"abc", "XYZ">>}

NextWS ==
    \/ \E c \in Clients : Connect(c)
    \/ \E c \in Clients, symbols \in Messages :
          RecvSubscribe(c, symbols)
    \/ \E c \in Clients, ok \in BOOLEAN : PushCached(c, ok)
    \/ \E c \in Clients, symbols \in Messages :
          RecvUnsubscribe(c, symbols)
    \/ \E c \in Clients : HandlerEnd(c)
    \/ \E id \in DOMAIN tasks : TaskCancelled(id)
    \/ \E id \in DOMAIN tasks : TaskExit(id)
    \/ \E id \in DOMAIN tasks : TaskFetchNoData(id)
    \/ \E id \in DOMAIN tasks : TaskFetchError(id)
    \/ \E id \in DOMAIN tasks, c \in Choice :
          TaskFetchData(id, c, "rows", clock)
    \/ \E id \in DOMAIN tasks, c \in Choice : TaskCacheWrite(id, c)
    \/ \E id \in DOMAIN tasks : TaskCacheWriteCancelled(id)
    \/ \E id \in DOMAIN tasks, ok \in BOOLEAN, c \in Choice : TaskSend(id, ok, c)
    \/ \E key \in DOMAIN cache : CacheExpire(key)

\* The subscription engine, the service not being called.
InitSpecWS == InitWS /\ InitCache /\ InitNoCalls

SpecWS == InitSpecWS /\ [][NextWS]_vars

NextSvc ==
    \/ \E symbol \in ReqSymbols : StartQuote(symbol)
    \/ \E symbol \in ReqSymbols, period \in Periods : StartHistory(symbol, period)
    \/ QuoteCache
    \/ \E in \in Inputs : QuoteOffHours(in)
    \/ \E in \in Inputs : QuoteLive(in)
    \/ HistoryCache
    \/ \E in \in Inputs : HistoryServe(in)
    \/ \E key \in DOMAIN cache : CacheExpire(key)

\* The quote and history service, no client being connected.
InitSpecSvc == InitWS /\ InitCache /\ InitSvc

SpecSvc == InitSpecSvc /\ [][NextSvc]_vars

\* The cache is not available: Redis was not reached at start-up, or every
\* command fails. A run exercises the subscription engine or the service:
\* they share nothing but the Redis client, under keys of different prefixes.
InitNoCache ==
    /\ redis \in {"none", "down"}
    /\ cache = << >>
    /\ \/ InitWS /\ InitNoCalls
       \/ InitNoClients /\ InitSvc

NextNoCache ==
    \/ \E c \in Clients : Connect(c)
    \/ \E c \in Clients, symbols \in Messages :
          RecvSubscribe(c, symbols)
    \/ \E c \in Clients, ok \in BOOLEAN : PushCached(c, ok)
    \/ \E c \in Clients, symbols \in Messages :
          RecvUnsubscribe(c, symbols)
    \/ \E c \in Clients : HandlerEnd(c)
    \/ \E id \in DOMAIN tasks : TaskCancelled(id)
    \/ \E id \in DOMAIN tasks : TaskExit(id)
    \/ \E id \in DOMAIN tasks : TaskFetchNoData(id)
    \/ \E id \in DOMAIN tasks : TaskFetchError(id)
    \/ \E id \in DOMAIN tasks, c \in Choice :
          TaskFetchData(id, c, "rows", clock)
    \/ \E id \in DOMAIN tasks, c \in Choice : TaskCacheWrite(id, c)
    \/ \E id \in DOMAIN tasks : TaskCacheWriteCancelled(id)
    \/ \E id \in DOMAIN tasks, ok \in BOOLEAN, c \in Choice : TaskSend(id, ok, c)
    \/ \E symbol \in ReqSymbols : StartQuote(symbol)
    \/ \E symbol \in ReqSymbols, period \in Periods : StartHistory(symbol, period)
    \/ QuoteCache
    \/ \E in \in Inputs : QuoteOffHours(in)
    \/ \E in \in Inputs : QuoteLive(in)
    \/ HistoryCache
    \/ \E in \in Inputs : HistoryServe(in)

SpecNoCache == InitNoCache /\ [][NextNoCache]_vars

\* History syncs of one listed symbol on concurrent sessions; no client is
\* connected and the cache is not used.
InitSpecSync ==
    /\ InitNoClients
    /\ redis = "none"
    /\ cache = << >>
    /\ stocks = [s \in {"ABC"} |-> StockRow]
    /\ stock_history \in {StoreOf(full, null \ full) \cup OtherRows :
                              full \in SUBSET Days, null \in SUBSET Days}
    /\ call = NoCalls
    /\ now = 0
    /\ syncs = [i \in Sessions |-> IdleSync]
    /\ resolver = OffResolve
    /\ probe = IdleProbe

NextSync ==
    \/ \E i \in Sessions, symbol \in ReqSymbols, fail \in {"none", "latest"} :
          SyncLatest(i, symbol, fail)
    \/ \E i \in Sessions, outcome \in SyncOutcomes : SyncFetch(i, outcome)
    \/ \E i \in Sessions : SyncRow(i)
    \/ \E i \in Sessions : SyncCommit(i)
    \/ \E i \in Sessions : SyncRollback(i)

SpecSync == InitSpecSync /\ [][NextSync]_vars

\* The messages of a run with a running clock: one symbol, once or twice.
PollMessages == {<<"abc">>, <<"abc", "abc">>}

\* One client connects in this run.
InitOneClient ==
    /\ active_connections = {}
    /\ subscriptions = << >>
    /\ symbol_subscribers = << >>
    /\ update_tasks = << >>
    /\ tasks = [id \in 1..MaxTasks |-> DoneTask]
    /\ handler = [c \in Clients |->
                    [pc |-> IF c = 1 THEN "none" ELSE "off", push |-> <<>>]]
    /\ clock = 0
    /\ received = [c \in Clients |-> << >>]

\* The subscription engine with one client, a connected cache, a provider
\* whose bars may lack a close or come with a previousClose of 0, and a
\* clock that gives every tick its own timestamp.
InitSpecPoll ==
    /\ InitOneClient
    /\ redis = "up"
    /\ cache = << >>
    /\ InitNoCalls

NextPoll ==
    \/ \E c \in Clients : Connect(c)
    \/ \E c \in Clients, symbols \in PollMessages :
          RecvSubscribe(c, symbols)
    \/ \E c \in Clients, ok \in BOOLEAN : PushCached(c, ok)
    \/ \E c \in Clients, symbols \in PollMessages :
          RecvUnsubscribe(c, symbols)
    \/ \E c \in Clients : HandlerEnd(c)
    \/ \E id \in DOMAIN tasks : TaskCancelled(id)
    \/ \E id \in DOMAIN tasks : TaskExit(id)
    \/ \E id \in DOMAIN tasks : TaskFetchNoData(id)
    \/ \E id \in DOMAIN tasks : TaskFetchError(id)
    \/ \E id \in DOMAIN tasks, c \in Choice, bar \in PollBars :
          clock < MaxTicks /\ TaskFetchData(id, c, bar, clock + 1)
    \/ \E id \in DOMAIN tasks, c \in Choice : TaskCacheWrite(id, c)
    \/ \E id \in DOMAIN tasks : TaskCacheWriteCancelled(id)
    \/ \E id \in DOMAIN tasks, ok \in BOOLEAN, c \in Choice : TaskSend(id, ok, c)
    \/ \E key \in DOMAIN cache : CacheExpire(key)

SpecPoll == InitSpecPoll /\ [][NextPoll]_vars

\* The time of the next tick when the times of the ticks go round: two ticks
\* one after the other never carry the same time.
NextTick == (clock % MaxTicks) + 1

\* The subscription engine with a provider that has data at every fetch.
NextLive ==
    \/ \E c \in Clients : Connect(c)
    \/ \E c \in Clients, symbols \in PollMessages :
          RecvSubscribe(c, symbols)
    \/ \E c \in Clients, ok \in BOOLEAN : PushCached(c, ok)
    \/ \E c \in Clients, symbols \in PollMessages :
          RecvUnsubscribe(c, symbols)
    \/ \E c \in Clients : HandlerEnd(c)
    \/ \E id \in DOMAIN tasks : TaskCancelled(id)
    \/ \E id \in DOMAIN tasks : TaskExit(id)
    \/ \E id \in DOMAIN tasks, c \in Choice :
          TaskFetchData(id, c, "rows", NextTick)
    \/ \E id \in DOMAIN tasks, c \in Choice : TaskCacheWrite(id, c)
    \/ \E id \in DOMAIN tasks : TaskCacheWriteCancelled(id)
    \/ \E id \in DOMAIN tasks, ok \in BOOLEAN, c \in Choice : TaskSend(id, ok, c)

\* A step of the coroutine of task id.
TaskStep(id) ==
    \/ TaskCancelled(id)
    \/ TaskExit(id)
    \/ \E c \in Choice : TaskFetchData(id, c, "rows", NextTick)
    \/ \E c \in Choice : TaskCacheWrite(id, c)
    \/ TaskCacheWriteCancelled(id)
    \/ \E ok \in BOOLEAN, c \in Choice : TaskSend(id, ok, c)

\* The event loop runs every task that is ready: a sleep ends, and the
\* provider, Redis and send_text return or raise. Clients are not bound to
\* send anything.
TaskFairness == \A id \in 1..MaxTasks : WF_vars(TaskStep(id))

\* One client, with the cache connected, never connected or failing.
InitSpecLive ==
    /\ InitOneClient
    /\ InitCache
    /\ InitNoCalls

SpecLive == InitSpecLive /\ [][NextLive]_vars /\ TaskFairness

\* The cache client called directly, as test_redis_connection does; the
\* connection is up, was never made, or fails at every command.
InitSpecCache ==
    /\ InitNoClients
    /\ InitCache
    /\ InitNoCalls

NextCache ==
    \/ \E key \in ProbeKeys, value \in ProbeValues, ttl \in ProbeTTLs :
          CacheSet(key, value, ttl)
    \/ \E key \in ProbeKeys : CacheGet(key)
    \/ \E key \in ProbeKeys : CacheDelete(key)
    \/ \E prefix \in ClearPrefixes : ClearCache(prefix)
    \/ \E key \in DOMAIN cache : CacheExpire(key)

SpecCache == InitSpecCache /\ [][NextCache]_vars

\* The symbol resolver alone: nothing else runs.
InitSpecResolve ==
    /\ InitNoClients
    /\ redis = "none"
    /\ cache = << >>
    /\ stocks = << >>
    /\ stock_history = {}
    /\ call = NoCalls
    /\ now = 0
    /\ syncs = [i \in Sessions |-> OffSync]
    /\ resolver = IdleResolve
    /\ probe = IdleProbe

NextResolve ==
    \/ \E symbol \in ResolveSymbols : ResolveStart(symbol)
    \/ \E outcome \in HistoryOutcomes : ResolveTry(outcome)

SpecResolve == InitSpecResolve /\ [][NextResolve]_vars

\* ------------------------------------------------------------------ claims

SubscribersOf(subs, s) == IF s \in DOMAIN subs THEN subs[s] ELSE {}

\* Every symbol string a dictionary may be keyed by.
SymbolStrings == PollSymbols \cup {Upper(s) : s \in RawSymbols}

\* The tasks that run for symbol s and that nobody has cancelled.
Running(s) ==
    {id \in DOMAIN tasks :
        ~Finished(tasks[id]) /\ tasks[id].symbol = s /\ tasks[id].cancel = "no"}

\* C1: a symbol has a Poll Task in the task registry exactly when its
\* subscriber set is non-empty, and the registered task is one that runs
\* for that symbol and has not been cancelled.
C1_RegistryIffSubscribers ==
    \A s \in SymbolStrings :
        /\ s \in DOMAIN update_tasks <=> SubscribersOf(symbol_subscribers, s) # {}
        /\ s \in DOMAIN update_tasks => update_tasks[s] \in Running(s)

\* One symbol has lost its last subscriber (its task is cancelled and no
\* longer registered) while the other keeps its task with one of two
\* connected clients subscribed.
C1_Witness ==
    /\ active_connections = Clients
    /\ \E id \in DOMAIN tasks :
          /\ tasks[id].cancel = "fut"
          /\ tasks[id].symbol \notin DOMAIN update_tasks
    /\ \E s \in DOMAIN update_tasks : Cardinality(symbol_subscribers[s]) = 1

\* C2: for every symbol at most one Poll Task is running at any time.
C2_AtMostOneTaskPerSymbol ==
    \A s \in SymbolStrings : Cardinality(Running(s)) <= 1

\* C3: when the last subscriber of a symbol is removed, every Poll Task
\* that was serving the symbol is cancelled (or has already finished).
C3_LastUnsubscribeCancels ==
    [][\A s \in SymbolStrings :
          (SubscribersOf(symbol_subscribers, s) # {}
             /\ SubscribersOf(symbol_subscribers', s) = {})
          => \A id \in DOMAIN tasks :
                (~Finished(tasks[id]) /\ tasks[id].symbol = s)
                => (Finished(tasks'[id]) \/ tasks'[id].cancel # "no")]_vars

\* Client c is disconnected by this step.
Disconnected(c) == c \in active_connections /\ c \notin active_connections'

\* C4: a disconnect of client c leaves c in no subscriber set, with no
\* subscription entry and no connection entry; the task of every symbol c
\* was the last subscriber of is cancelled and deregistered; every other
\* symbol keeps its other subscribers and its task; the other clients keep
\* their subscriptions. The handler of c ends only with c disconnected, and
\* a disconnect of a client already disconnected changes nothing.
C4_Disconnect ==
    [][\A c \in Clients :
          /\ Disconnected(c) =>
                /\ c \notin DOMAIN subscriptions'
                /\ \A s \in DOMAIN symbol_subscribers' : c \notin symbol_subscribers'[s]
                /\ \A d \in DOMAIN subscriptions \ {c} :
                      /\ d \in DOMAIN subscriptions'
                      /\ subscriptions'[d] = subscriptions[d]
                      /\ d \in active_connections' <=> d \in active_connections
                /\ \A s \in DOMAIN symbol_subscribers :
                      IF symbol_subscribers[s] \subseteq {c}
                      THEN /\ s \notin DOMAIN symbol_subscribers'
                           /\ s \notin DOMAIN update_tasks'
                           /\ s \in DOMAIN update_tasks
                           /\ tasks'[update_tasks[s]].cancel # "no"
                      ELSE /\ s \in DOMAIN symbol_subscribers'
                           /\ symbol_subscribers'[s] = symbol_subscribers[s] \ {c}
                           /\ s \in DOMAIN update_tasks'
                           /\ update_tasks'[s] = update_tasks[s]
                           /\ tasks'[update_tasks[s]].cancel = "no"
          /\ (handler[c].pc # "closed" /\ handler'[c].pc = "closed") =>
                /\ c \notin active_connections'
                /\ c \notin DOMAIN subscriptions'
                /\ \A s \in DOMAIN symbol_subscribers' : c \notin symbol_subscribers'[s]
                /\ c \notin active_connections =>
                      UNCHANGED <<active_connections, subscriptions,
                                  symbol_subscribers, update_tasks, tasks>>]_vars

\* A client whose handler has ended after it subscribed alone to one symbol
\* and together with the other client to the other symbol.
C4_Witness ==
    \E c \in Clients :
        /\ handler[c].pc = "closed"
        /\ \E id \in DOMAIN tasks : tasks[id].cancel = "fut"
        /\ \E s \in DOMAIN update_tasks :
              /\ symbol_subscribers[s] = Clients \ {c}
              /\ ~Finished(tasks[update_tasks[s]])

\* The send of task id to client c fails in this step.
SendFails(id, c) ==
    /\ tasks[id].pc = "send"
    /\ tasks[id].cur = c
    /\ Disconnected(c)
    /\ tasks'[id].pc # "send" \/ c \in tasks'[id].failed

\* C5: a failed send of a broadcast removes the client it was for from all
\* its subscriptions and changes no other client's subscriptions or
\* connection; every client the tick was still to be sent to, and that is
\* still subscribed to the symbol, is still served by the broadcast.
C5_SendFailure ==
    [][\A id \in DOMAIN tasks, c \in Clients :
          SendFails(id, c) =>
             /\ c \notin DOMAIN subscriptions'
             /\ \A s \in DOMAIN symbol_subscribers' : c \notin symbol_subscribers'[s]
             /\ \A d \in DOMAIN subscriptions \ {c} :
                   /\ d \in DOMAIN subscriptions'
                   /\ subscriptions'[d] = subscriptions[d]
                   /\ d \in active_connections' <=> d \in active_connections
             /\ \A s \in DOMAIN symbol_subscribers :
                   symbol_subscribers[s] \ {c} # {} =>
                      /\ s \in DOMAIN symbol_subscribers'
                      /\ symbol_subscribers'[s] = symbol_subscribers[s] \ {c}
             /\ \A d \in tasks[id].pending :
                   d \in SubscribersOf(symbol_subscribers', tasks[id].symbol) =>
                      /\ tasks'[id].pc = "send"
                      /\ tasks'[id].cur = d \/ d \in tasks'[id].pending]_vars

\* After a failed send the broadcast is suspended on the send to another
\* client, which is still subscribed to the symbol.
C5_Witness ==
    \E id \in DOMAIN tasks :
        /\ tasks[id].pc = "send"
        /\ tasks[id].failed # {}
        /\ tasks[id].failed \cap active_connections = {}
        /\ tasks[id].cur \in SubscribersOf(symbol_subscribers, tasks[id].symbol)
        /\ tasks[id].cur \in active_connections

\* The cache key of a call.
CallKey(cl) ==
    IF cl.fn = "quote" THEN QuoteKey(cl.symbol)
    ELSE HistoryKey(cl.symbol, cl.period)

\* The call in progress looks up a key that has an unexpired entry.
CacheHit ==
    /\ call.pc = "get"
    /\ redis = "up"
    /\ CallKey(call) \in DOMAIN cache

\* C6: a getQuote or getHistory call that finds an unexpired entry under its
\* key returns the payload of the entry, which is the payload the call that
\* wrote the entry returned; it evaluates no market hours, does not read or
\* write the store, does not call the provider and does not write the cache.
C6_CacheHit ==
    [][/\ (CacheHit /\ call' # call) =>
             /\ call'.pc = "done"
             /\ call'.result = loads(cache[CallKey(call)].val)
             /\ call'.market = <<>>
             /\ ~call'.store_reads
             /\ ~call'.store_writes
             /\ ~call'.provider
             /\ call'.cache_set = <<>>
             /\ UNCHANGED <<cache, stocks, stock_history>>
       /\ \A k \in DOMAIN cache' :
             (k \notin DOMAIN cache \/ cache'[k] # cache[k]) =>
                /\ call.pc # "done"
                /\ call'.pc = "done"
                /\ k = CallKey(call')
                /\ call'.result = loads(cache'[k].val)]_vars

\* A call has returned a payload it found in the cache: the payload carries
\* the time of an earlier call, and the call did nothing but the lookup.
C6_Witness ==
    /\ call.pc = "done"
    /\ call.result # None
    /\ call.result.v.timestamp # PyStr(isoformat(now))
    /\ call.market = <<>>
    /\ ~call.store_reads
    /\ call.cache_set = <<>>

\* C7: a getQuote call that missed the cache, found the market closed and
\* met no store exception, the store holding at least one Bar of the symbol,
\* never calls the provider and returns a quote built from the latest Bar
\* with change = 0, whatever the Bar's columns hold.
C7_OffHoursQuoteFromStore ==
    (/\ call.fn = "quote"
     /\ call.market # <<>>
     /\ ~call.market[1]
     /\ call.exc = {}
     /\ BarDates(stock_history, Upper(call.symbol)) # {})
    => /\ ~call.provider
       /\ call.pc = "done" =>
             LET latest_row == RowAt(stock_history, Upper(call.symbol),
                                  MaxOf(BarDates(stock_history, Upper(call.symbol))))
             IN  /\ call.result # None
                 /\ call.result.v.source = PyStr("database")
                 /\ call.result.v.stock.v.change = PyFloat(0)
                 /\ latest_row.close # None =>
                       call.result.v.stock.v.currentPrice = latest_row.close

\* A getQuote call returns a payload it has just built and handed to the
\* cache client.
QuoteCached ==
    /\ call.fn = "quote"
    /\ call.pc # "done"
    /\ call'.pc = "done"
    /\ call'.cache_set # <<>>

\* The TTL of the cache entry of the call, when the write reached Redis.
WrittenWith(ttl) ==
    /\ call'.cache_set = <<ttl>>
    /\ redis = "up" =>
          /\ QuoteKey(call.symbol) \in DOMAIN cache'
          /\ cache'[QuoteKey(call.symbol)].ttl = ttl

\* C8 as stated: a quote fetched live from the provider is cached with the
\* base real-time TTL, a quote synthesized from the store with 10 times it.
C8_LiveQuoteBaseTTL ==
    [][QuoteCached =>
          IF call'.result.v.source = PyStr("yfinance")
          THEN WrittenWith(RealtimeTTL)
          ELSE WrittenWith(RealtimeTTL * 10)]_vars

\* C8, amended: a quote fetched live from the provider is cached with the
\* TTL the market-hours predicate selects when the quote is cached, the base
\* real-time TTL with the market open and 10 times it with the market closed;
\* a quote synthesized from the store is cached with 10 times the base TTL.
C8_LiveQuoteTTLByMarketHours ==
    [][QuoteCached =>
          IF call'.result.v.source = PyStr("yfinance")
          THEN /\ Len(call'.market) = 2
               /\ IF call'.market[2] THEN WrittenWith(RealtimeTTL)
                  ELSE WrittenWith(RealtimeTTL * 10)
          ELSE /\ call'.result.v.source = PyStr("database")
               /\ call'.market = <<FALSE>>
               /\ WrittenWith(RealtimeTTL * 10)]_vars

\* The market was closed, the store had nothing for the symbol, and the
\* quote fetched live sits in the cache with 10 times the base TTL.
C8_Witness ==
    /\ call.fn = "quote"
    /\ call.pc = "done"
    /\ call.result # None
    /\ call.result.v.source = PyStr("yfinance")
    /\ call.market = <<FALSE, FALSE>>
    /\ BarDates(stock_history, Upper(call.symbol)) = {}
    /\ call.cache_set = <<RealtimeTTL * 10>>
    /\ QuoteKey(call.symbol) \in DOMAIN cache
    /\ cache[QuoteKey(call.symbol)].ttl = RealtimeTTL * 10

\* C9: a getHistory call during which the provider or the store raised
\* returns a result with a non-null error, no data and records = 0.
C9_HistoryErrorsReported ==
    (/\ call.fn = "history"
     /\ call.pc = "done"
     /\ call.exc # {})
    => /\ call.result.t = "dict"
       /\ call.result.v.error # None
       /\ call.result.v.data = List(<<>>)
       /\ call.result.v.records = PyInt(0)

\* C10: with the cache unavailable every write leaves the cache as it is
\* and every lookup is a miss; each step of a getQuote or getHistory call is
\* the step the call takes with a connected, empty cache; a Poll Task whose
\* cache write has returned goes on to broadcast, a Poll Task ends only
\* cancelled or with no subscriber left, and the push of cached ticks to a
\* new subscriber sends nothing and fails nothing.
C10_CacheUnavailable ==
    [][redis # "up" =>
          /\ cache = << >>
          /\ cache' = cache
          /\ (call.pc = "get" /\ call' # call) => call'.pc # "done"
          /\ (call.pc \in {"get", "market", "fetch", "serve"} /\ call' # call) =>
                \E in \in Inputs :
                    LET o == ServiceStep("up", << >>, call, stocks,
                                         stock_history, now, in)
                    IN  /\ call' = o.call
                        /\ stock_history' = o.stock_history
          /\ \A id \in DOMAIN tasks :
                /\ (/\ tasks[id].pc = "set"
                    /\ tasks[id].cancel = "no"
                    /\ tasks'[id].pc # "set") =>
                       tasks'[id].pc \in {"send", "sleep5"}
                /\ (~Finished(tasks[id]) /\ Finished(tasks'[id])) =>
                       tasks[id].cancel # "no" \/ ~LoopCondition(id)
          /\ \A c \in Clients :
                (handler[c].pc = "push" /\ handler'[c] # handler[c]) =>
                    UNCHANGED <<active_connections, subscriptions,
                                symbol_subscribers, update_tasks, tasks>>]_vars

\* With Redis failing every command, a call has handed its payload to the
\* cache client and returned it; the cache holds nothing.
C10_Witness ==
    /\ redis = "down"
    /\ call.pc = "done"
    /\ call.result # None
    /\ call.cache_set # <<>>
    /\ cache = << >>

\* The getHistory call in progress is served from the store in this step.
Served ==
    /\ call.fn = "history"
    /\ call.pc = "serve"
    /\ call'.pc = "done"

\* C11: when the store holds rows of the symbol with latest date D, the
\* call asks the provider for nothing but the window [D+1, today+1); it
\* asks for the full history only when the store holds no row of the symbol.
C11_GapFillMinimal ==
    [][Served =>
          LET dates == BarDates(stock_history, Upper(call.symbol))
          IN  \A i \in DOMAIN call'.fetched :
                 IF dates = {}
                 THEN call'.fetched[i] = [start |-> None, end |-> None]
                 ELSE call'.fetched[i] =
                          [start |-> Date(MaxOf(dates) + 1),
                           end |-> Date(Today + 1)]]_vars

\* The table holds the batch: every parameter set has a row of its key with
\* its values.
Holds(hist, batch) ==
    \A k \in DOMAIN batch :
       \E r \in hist : r = Row(r.id, batch[k].symbol, batch[k].date, batch[k])

Commits(i) ==
    /\ syncs[i].pc = "exec"
    /\ syncs'[i].pc = "done"
    /\ syncs'[i].outcome = "committed"

\* C12: storing a batch the table already holds (the same bars stored once
\* before) changes nothing: the same rows, the same values, the same count.
C12_UpsertIdempotent ==
    [][\A i \in Sessions :
          Commits(i) /\ Holds(stock_history, syncs[i].batch)
             => /\ stock_history' = stock_history
                /\ Cardinality(stock_history') = Cardinality(stock_history)]_vars

\* Two sessions have committed the same batch, one after the other.
C12_Witness ==
    /\ \A i \in Sessions :
          /\ syncs[i].outcome = "committed"
          /\ syncs[i].batch = syncs[1].batch
          /\ Len(syncs[i].batch) >= 2
    /\ Holds(stock_history, syncs[1].batch)

\* C13: the table never holds two rows of one (symbol, date).
C13_OneBarPerKey ==
    \A r1, r2 \in stock_history :
       r1.symbol = r2.symbol /\ r1.date = r2.date => r1 = r2

\* Two sessions had the same key in their batches at the same time and both
\* have committed.
C13_Witness ==
    /\ \A i \in Sessions : syncs[i].outcome = "committed"
    /\ \E k1 \in DOMAIN syncs[1].ops, k2 \in DOMAIN syncs[2].ops :
          /\ syncs[1].ops[k1].p.date = syncs[2].ops[k2].p.date
          /\ syncs[1].ops[k1].kind = "insert"
          /\ syncs[2].ops[k2].kind = "update"

\* C14: a sync's writes reach the table at its commit, all of them together;
\* a sync whose write fails leaves the table as it is.
C14_AtomicBatch ==
    [][/\ \A i \in Sessions :
             syncs[i].pc = "exec" /\ syncs'[i].pc = "done"
                => IF syncs'[i].outcome = "committed"
                   THEN /\ Holds(stock_history', syncs[i].batch)
                        /\ \A r \in stock_history :
                              \/ r \in stock_history'
                              \/ \E k \in DOMAIN syncs[i].batch :
                                    /\ syncs[i].batch[k].symbol = r.symbol
                                    /\ syncs[i].batch[k].date = r.date
                   ELSE stock_history' = stock_history
       /\ stock_history' # stock_history => \E i \in Sessions : Commits(i)]_vars

\* A sync was rolled back after it had executed a part of its batch, and the
\* table still lacks the dates of that batch.
C14_Witness ==
    \E i \in Sessions :
       /\ syncs[i].outcome = "rolledback"
       /\ Len(syncs[i].ops) >= 1
       /\ Len(syncs[i].ops) < Len(syncs[i].batch)
       /\ \A k \in DOMAIN syncs[i].batch :
             syncs[i].batch[k].date \notin BarDates(stock_history, "ABC")

\* The sync of the call that ends failed: the provider raised or the write
\* was rolled back.
SyncFailed == Served /\ call'.exc \cap {"provider", "upsert"} # {}

\* C15: a getHistory call whose sync failed returns a result that reports
\* the failure, and the next call of the same symbol and period is not
\* answered from the cache: it runs the sync again.
C15_SyncFailureReportedAndRetried ==
    [][SyncFailed =>
          /\ call'.result.v.error # None
          /\ ~Truthy(RedisGet(redis, cache',
                              HistoryKey(call.symbol, call.period)))]_vars

\* The rows of the symbol in the table whose date lies in the window, in
\* ascending order of date.
RowsInWindow(hist, symbol, window) ==
    OrderByDate({r \in hist :
                    /\ r.symbol = Upper(symbol)
                    /\ window[1] # None => r.date >= window[1].v
                    /\ r.date <= window[2].v})

\* C16: the data of a getHistory response without error is the rows of the
\* symbol in the table after the sync whose date lies in the window of the
\* period, in ascending order of date, and records is their number.
C16_DataIsStoreWindow ==
    [][Served /\ call'.result.v.error = None =>
          LET rows == RowsInWindow(stock_history', call.symbol, call'.window)
              data == call'.result.v.data.v
          IN  /\ Len(data) = Len(rows)
              /\ call'.result.v.records = PyInt(Len(data))
              /\ \A i \in DOMAIN data :
                    /\ data[i].v.timestamp = PyStr(strftime(rows[i].date))
                    /\ rows[i].close # None
                          => data[i].v.close = PyFloat(rows[i].close.v)
                    /\ rows[i].volume # None
                          => data[i].v.volume = PyInt(rows[i].volume.v)]_vars

\* The period strings of the mapping, and 'ALL'.
KnownPeriods == {"1D", "1W", "15D", "1M", "6M", "1Y", "5Y", "ALL"}

UnknownPeriod ==
    /\ Served
    /\ Upper(call.period) \notin KnownPeriods
    /\ call'.window # <<>>

\* C17 as stated: a period that is not in the mapping gets the widest
\* lookback, the 5 years of '5Y' or the open start of 'ALL'.
C17_UnknownPeriodWidest ==
    [][UnknownPeriod =>
          \/ call'.window = <<None, Date(Today)>>
          \/ call'.window = <<Date(Today - 365 * 5), Date(Today)>>]_vars

\* C17: a period that is not in the mapping gets the default lookback of
\* 6 months: the window [today - 180 days, today].
C17_UnknownPeriodDefault6M ==
    [][UnknownPeriod =>
          /\ call'.window = <<Date(Today - 180), Date(Today)>>
          /\ call'.window = _get_period_dates("6M")]_vars

\* A call with a period that is not in the mapping has been served from the
\* table.
C17_Witness ==
    /\ call.fn = "history"
    /\ call.pc = "done"
    /\ call.period = "2W"
    /\ call.window = <<Date(Today - 180), Date(Today)>>
    /\ call.result.v.error = None
    /\ call.result.v.records = PyInt(MaxDay)

\* C18: no step of a getQuote call changes the tables; what it writes, it
\* writes to the cache.
C18_QuoteLeavesStore ==
    [][call.fn = "quote" /\ call.pc \in {"get", "market", "fetch"} =>
          /\ stock_history' = stock_history
          /\ stocks' = stocks
          /\ call'.store_writes = FALSE]_vars

\* A quote was fetched live and written to the cache, the table holding
\* rows of the symbol.
C18_Witness ==
    /\ call.fn = "quote"
    /\ call.pc = "done"
    /\ call.provider
    /\ call.cache_set # <<>>
    /\ QuoteKey(call.symbol) \in DOMAIN cache
    /\ BarDates(stock_history, Upper(call.symbol)) # {}

\* The resolver was called with a symbol that ends, cleaned, with .BSE.
AlternateSuffix ==
    /\ resolver.pc \in {"try", "done"}
    /\ endswith(upper(lstrip(resolver.symbol, "$")), DotBSE)

\* The symbol without its .BSE suffix.
BaseOf(symbol) == DropLast(upper(lstrip(symbol, "$")), 4)

\* C19 as stated: for a symbol with the alternate-exchange suffix the
\* candidates are the variant of the exchange tried first for a plain
\* symbol (.NS), then the variant of the originating exchange (.BO).
C19_PrimaryFirst ==
    AlternateSuffix =>
       resolver.symbol_variations =
          <<Head(symbol_variations(BaseOf(resolver.symbol))),
            BaseOf(resolver.symbol) \o DotBO>>

\* C19: for a symbol with the alternate-exchange suffix the candidates are
\* the variant of the originating exchange (.BO) first, then the variant of
\* the exchange tried first for a plain symbol (.NS) as the fallback.
C19_OriginatingFirst ==
    AlternateSuffix =>
       /\ resolver.symbol_variations =
             <<BaseOf(resolver.symbol) \o DotBO,
               Head(symbol_variations(BaseOf(resolver.symbol)))>>
       /\ resolver.symbol_variations[2] = BaseOf(resolver.symbol) \o DotNS

\* A .BSE symbol was resolved to its .NS variant after the .BO variant had
\* no data.
C19_Witness ==
    /\ AlternateSuffix
    /\ resolver.pc = "done"
    /\ Len(resolver.tried) = 2
    /\ resolver.tried[1] = [variant |-> <<"A", "B">> \o DotBO,
                            outcome |-> "empty"]
    /\ resolver.result.variant = PyStr(<<"A", "B">> \o DotNS)

\* C20: the variants tried are the candidates in their order, one after
\* the other; every one before the last tried had no data or raised; a
\* call that got data ends with the variant it then tried, and a call ends
\* with the not-found result only when every candidate was tried and none
\* gave data.
C20_FirstWithData ==
    resolver.pc \in {"try", "done"} =>
       LET vs == resolver.symbol_variations
           tr == resolver.tried
       IN  /\ Len(tr) <= Len(vs)
           /\ \A k \in DOMAIN tr :
                 /\ tr[k].variant = vs[k]
                 /\ k < Len(tr) => tr[k].outcome \in {"empty", "raise"}
           /\ resolver.pc = "try" =>
                 /\ Len(tr) < Len(vs)
                 /\ \A k \in DOMAIN tr : tr[k].outcome # "data"
           /\ resolver.pc = "done" =>
                 /\ tr # <<>>
                 /\ IF tr[Len(tr)].outcome = "data"
                    THEN resolver.result =
                            [ticker |-> PyStr(tr[Len(tr)].variant),
                             hist |-> PyStr("hist"),
                             variant |-> PyStr(tr[Len(tr)].variant)]
                    ELSE /\ Len(tr) = Len(vs)
                         /\ resolver.result = NotFound

\* The first candidate of a plain symbol raised and the second was accepted.
C20_Witness ==
    /\ resolver.pc = "done"
    /\ ~AlternateSuffix
    /\ Len(resolver.symbol_variations) = 2
    /\ Len(resolver.tried) = 2
    /\ resolver.tried[1].outcome = "raise"
    /\ resolver.tried[2].outcome = "data"
    /\ resolver.result.variant = PyStr(resolver.symbol_variations[2])

RECURSIVE JsonFinite(_)
\* The JSON text has no NaN, Infinity or -Infinity token.
JsonFinite(y) ==
    CASE y.j \in {"NaN", "Infinity", "-Infinity"} -> FALSE
      [] y.j = "object" -> \A k \in DOMAIN y.v : JsonFinite(y.v[k])
      [] y.j = "array" -> \A i \in DOMAIN y.v : JsonFinite(y.v[i])
      [] OTHER -> TRUE

\* C21: no value in the cache, under a quote, history or realtime key, holds
\* a non-finite number: NaN and the infinities were made null before the
\* write.
C21_CacheValuesFinite ==
    \A key \in DOMAIN cache : JsonFinite(cache[key].val)

\* A direct get of the cache client returns.
GetStep ==
    /\ probe'.op = "get"
    /\ probe' # probe
    /\ probe'.written = probe.written
    /\ cache' = cache

\* C22: on a connected cache, get(key) returns the value last set under the
\* key, equal to what was written, as long as the entry has not expired and
\* the key was not deleted; after a delete, and after the expiry, get is a
\* miss.
C22_CacheRoundTrip ==
    [][GetStep /\ redis = "up" =>
          probe'.result = IF probe'.key \in DOMAIN probe.written
                          THEN probe.written[probe'.key]
                          ELSE None]_vars

\* A get has returned the nested value written under the key before, while
\* the other key holds another value.
C22_Witness ==
    /\ redis = "up"
    /\ probe.op = "get"
    /\ probe.result # None
    /\ probe.result.t = "dict"
    /\ "rows" \in DOMAIN probe.result.v
    /\ probe.result = probe.written[probe.key]
    /\ DOMAIN probe.written = ProbeKeys
    /\ DOMAIN cache = ProbeKeys
    /\ cache[<<"test_key">>] # cache[<<"other_key">>]

\* The store's latest bar of the symbol of the call is of yesterday or later.
Fresh ==
    LET dates == BarDates(stock_history, Upper(call.symbol))
    IN  dates # {} /\ MaxOf(dates) >= Today - 1

\* The call in progress reaches its sync step in this step.
SyncStep == Served /\ call'.window # <<>>

\* C23: when the store's latest bar of the symbol is of yesterday or later,
\* the sync step asks the provider for nothing and leaves the store as it
\* is; it fetches exactly when the latest bar is older or no row is stored.
C23_FetchOnlyWhenStale ==
    [][SyncStep =>
          /\ call'.provider <=> ~Fresh
          /\ Fresh => /\ call'.fetched = <<>>
                      /\ ~call'.store_writes
                      /\ stock_history' = stock_history]_vars

\* C25: a response built by the call is tagged "database+yfinance" exactly
\* when its sync step asked the provider for history and "database" exactly
\* when it asked for nothing; with no row of the symbol stored the tag is
\* "database+yfinance".
C25_SourceTagIsFetch ==
    [][SyncStep /\ call'.result.v.error = None =>
          LET source == call'.result.v.source.v
          IN  /\ source = "database+yfinance" <=> call'.fetched # <<>>
              /\ source = "database" <=> call'.fetched = <<>>
              /\ BarDates(stock_history, Upper(call.symbol)) = {} =>
                     source = "database+yfinance"]_vars

\* A call on a cold symbol has fetched the full history and its response
\* carries the tag of the live-fetch path.
C25_Witness ==
    /\ call.fn = "history"
    /\ call.pc = "done"
    /\ call.exc = {}
    /\ call.fetched = <<[start |-> None, end |-> None]>>
    /\ call.store_writes
    /\ call.result.v.error = None
    /\ call.result.v.source = PyStr("database+yfinance")
    /\ call.result.v.records.v > 0

\* Sessions i and j sync the same symbol, saw the same latest date and got
\* the same response of the provider; each is in its first run, so that no
\* third sync has written between them.
SameSync(i, j) ==
    /\ i # j
    /\ syncs[i].runs = 1
    /\ syncs[j].runs = 1
    /\ syncs[j].pc \in {"exec", "done"}
    /\ syncs[j].symbol = syncs[i].symbol
    /\ syncs[j].start = syncs[i].start
    /\ syncs[j].batch = syncs[i].batch

\* C24: of two syncs of one symbol that saw the same latest date and got the
\* same response, the commit of the first leaves the table as a single sync
\* does, and the commit of the second changes nothing: the same rows with
\* the same values, whatever the order of their fetches and writes.
C24_ConcurrentAsSingle ==
    [][\A i, j \in Sessions :
          Commits(i) /\ SameSync(i, j) =>
             IF syncs[j].outcome = "committed"
             THEN stock_history' = stock_history
             ELSE stock_history' = executemany(stock_history, syncs[i].batch)]_vars

\* Two syncs saw the latest date 1 and fetched the same two bars; the first
\* has committed its inserts and the second, which waited for it, has
\* executed its whole batch as updates.
C24_Witness ==
    /\ \A i \in Sessions : syncs[i].runs = 1
    /\ syncs[1].outcome = "committed"
    /\ syncs[2].pc = "exec"
    /\ syncs[1].start = Date(2)
    /\ syncs[2].start = Date(2)
    /\ syncs[1].batch = syncs[2].batch
    /\ Len(syncs[2].ops) = 2
    /\ \A k \in DOMAIN syncs[1].ops : syncs[1].ops[k].kind = "insert"
    /\ \A k \in DOMAIN syncs[2].ops : syncs[2].ops[k].kind = "update"
    /\ Holds(stock_history, syncs[2].batch)

\* The column holds the provider's field: NULL for a NaN, else its number.
StoredAs(x, col) ==
    IF x = NaN THEN col = None ELSE col # None /\ col.v = x.v

\* C26: in the rows a sync commits, a field the provider gave as NaN is
\* NULL and never zero, and a field the provider gave as a number, 0
\* included, holds that number.
C26_NaNStoredAsNull ==
    [][\A i \in Sessions :
          Commits(i) =>
             \A d \in DOMAIN syncs[i].data :
                LET bar == syncs[i].data[d]
                    r == RowAt(stock_history', Upper(syncs[i].symbol), d)
                IN  /\ StoredAs(bar.Open, r.open)
                    /\ StoredAs(bar.High, r.high)
                    /\ StoredAs(bar.Low, r.low)
                    /\ StoredAs(bar.Close, r.close)
                    /\ StoredAs(bar.Volume, r.volume)]_vars

\* A sync has committed a frame whose last row has zeros next to a NaN: the
\* row of today holds 0 in one column and NULL in another.
C26_Witness ==
    \E i \in Sessions :
       /\ syncs[i].outcome = "committed"
       /\ Today \in DOMAIN syncs[i].data
       /\ syncs[i].data[Today] = ZeroRow
       /\ \E r \in stock_history :
             /\ r.date = Today
             /\ r.open = PyFloat(0)
             /\ r.volume = PyInt(0)
             /\ r.high = None

\* The ticker of the call, normalised.
Ticker == upper(lstrip(resolver.symbol, "$"))

\* C27: for a ticker without the alternate-exchange suffix, the candidates
\* are the ticker alone when it is an index symbol or ends with .NS or .BO,
\* and else the ticker with .NS, then with .BO; an index symbol gets no
\* suffix.
C27_CandidatesOfPlainTicker ==
    resolver.pc \in {"try", "done"} /\ ~endswith(Ticker, DotBSE) =>
       /\ resolver.symbol_variations =
             IF \/ Ticker \in INDEX_SYMBOLS
                \/ endswith(Ticker, DotNS)
                \/ endswith(Ticker, DotBO)
             THEN <<Ticker>>
             ELSE <<Ticker \o DotNS, Ticker \o DotBO>>
       /\ Ticker \in INDEX_SYMBOLS => Len(resolver.symbol_variations) = 1

\* An index symbol given in lower case was resolved to itself, after a
\* plain symbol had been resolved in the call before.
C27_Witness ==
    /\ resolver.pc = "done"
    /\ resolver.calls = 2
    /\ resolver.symbol = <<"^", "n", "s", "e", "i">>
    /\ resolver.symbol_variations = <<<<"^", "N", "S", "E", "I">>>>
    /\ resolver.result.variant = PyStr(<<"^", "N", "S", "E", "I">>)

\* The iteration of task id that starts in this step ends at a sleep with no
\* send in between: its fetch gave no data or raised (or no subscriber has a
\* connection to send to).
SkipsTick(id) ==
    /\ Waking(id)
    /\ tasks[id].cancel = "no"
    /\ LoopCondition(id)
    /\ tasks'[id].pc \in {"sleep5", "sleep10"}
    /\ tasks'[id].pc # tasks[id].pc

\* C28: an iteration whose fetch fails changes no connection, no
\* subscription, no cache entry and no other task, delivers nothing, and
\* leaves the task registered and asleep until its next iteration; a task
\* ends only when it is cancelled or when it finds no subscriber of its
\* symbol at the top of an iteration.
C28_FailedFetchSkipsTick ==
    [][\A id \in DOMAIN tasks :
          /\ SkipsTick(id) =>
                /\ UNCHANGED <<active_connections, subscriptions,
                               symbol_subscribers, update_tasks, handler,
                               cache, received>>
                /\ tasks' = [tasks EXCEPT ![id].pc = tasks'[id].pc]
          /\ ~Finished(tasks[id]) /\ Finished(tasks'[id]) =>
                \/ tasks[id].cancel # "no"
                \/ Waking(id) /\ ~LoopCondition(id)]_vars

\* A task sleeps the long interval after a fetch that raised: it is still
\* the registered task of its symbol, whose subscriber is still connected
\* and subscribed.
C28_Witness ==
    \E id \in DOMAIN tasks, c \in Clients :
       /\ tasks[id].pc = "sleep10"
       /\ tasks[id].cancel = "no"
       /\ tasks[id].symbol \in DOMAIN update_tasks
       /\ update_tasks[tasks[id].symbol] = id
       /\ c \in active_connections
       /\ c \in SubscribersOf(symbol_subscribers, tasks[id].symbol)
       /\ tasks[id].symbol \in subscriptions[c]

\* C29: an iteration whose fetch failed (no candidate gave data, or an
\* exception) is followed by the long sleep; the short sleep follows only
\* an iteration that got a tick.
C29_LongerWaitAfterFailure ==
    [][\A id \in DOMAIN tasks :
          /\ SkipsTick(id) => tasks'[id].pc = "sleep10"
          /\ tasks'[id].pc = "sleep5" /\ tasks[id].pc # "sleep5" =>
                tasks[id].pc \in {"set", "send"}]_vars

\* C30: for every client and every symbol, the ticks of the symbol reach the
\* client in the order they were produced: no tick is delivered after a
\* newer one.
C30_TicksInOrder ==
    [][\A c \in Clients, symbol \in SymbolStrings :
          LastOf(received', c, symbol) >= LastOf(received, c, symbol)]_vars

\* The broadcast of task id starts a send to client c in this step.
SendStarts(id, c) ==
    /\ tasks'[id].pc = "send"
    /\ tasks'[id].cur = c
    /\ tasks[id].pc # "send" \/ tasks[id].cur # c

\* C31: a broadcast sends the tick of its symbol only to a client that is
\* in the subscriber set of the symbol when the send starts.
C31_SendOnlyToSubscribers ==
    [][\A id \in DOMAIN tasks, c \in Clients :
          SendStarts(id, c) =>
             c \in SubscribersOf(symbol_subscribers', tasks'[id].symbol)]_vars

\* The handler of client c runs the first loop of subscribe_symbols in this
\* step and suspends in the second one.
SubscribeStep(c) == handler[c].pc = "open" /\ handler'[c].pc = "push"

\* The handler of client c makes one pass of the second loop in this step.
PushStep(c) == handler[c].pc = "push" /\ handler'[c] # handler[c]

\* C32: after the first loop of a subscribe of a connected client every
\* symbol of the request is in the set of the client and the client is in
\* the subscriber set of the symbol; a pass of the push loop, whether its
\* send returns or fails, changes neither subscription map nor the task
\* registry.
C32_PushIsBestEffort ==
    [][\A c \in Clients :
          /\ SubscribeStep(c) =>
                \A i \in DOMAIN handler'[c].push :
                   /\ c \in DOMAIN subscriptions'
                   /\ handler'[c].push[i] \in subscriptions'[c]
                   /\ c \in SubscribersOf(symbol_subscribers', handler'[c].push[i])
          /\ PushStep(c) =>
                UNCHANGED <<subscriptions, symbol_subscribers, update_tasks>>]_vars

\* text.startswith(prefix)
StartsWith(text, prefix) ==
    /\ Len(prefix) <= Len(text)
    /\ SubSeq(text, 1, Len(prefix)) = prefix

\* C33: on a connected cache clear_cache(prefix) deletes the keys whose name
\* starts with the prefix and keeps every other key with its entry, and its
\* deleted_count is the number of keys it deleted.
C33_ClearDeletesPrefixOnly ==
    \A prefix \in ClearPrefixes \ {<< >>} :
        LET res == clear_cache(redis, cache, prefix)
            kept == {key \in DOMAIN cache : ~StartsWith(KeyText(key), prefix)}
        IN  redis = "up" =>
               /\ DOMAIN res.cache = kept
               /\ \A key \in kept : res.cache[key] = cache[key]
               /\ res.deleted_count = Cardinality(DOMAIN cache \ kept)

\* The (symbol, date) keys of the table.
KeysOf(hist) == {<<r.symbol, r.date>> : r \in hist}

\* C34: a step of a sync of symbol S leaves the rows of every other symbol as
\* they are, and no step takes a (symbol, date) key out of the table.
C34_SyncTouchesOwnSymbolOnly ==
    [][/\ KeysOf(stock_history) \subseteq KeysOf(stock_history')
       /\ \A i \in Sessions :
             syncs'[i] # syncs[i] =>
                {r \in stock_history : r.symbol # Upper(syncs[i].symbol)}
                   = {r \in stock_history' : r.symbol # Upper(syncs[i].symbol)}]_vars

\* Two syncs of ABC have committed, the second one updating rows the first
\* had inserted, on the dates of the rows of the other symbol, which are in
\* the table as they were.
C34_Witness ==
    /\ \A i \in Sessions : syncs[i].outcome = "committed"
    /\ \E k \in DOMAIN syncs[2].ops : syncs[2].ops[k].kind = "update"
    /\ \E k \in DOMAIN syncs[1].ops : syncs[1].ops[k].kind = "insert"
    /\ BarDates(stock_history, "ABC") = Days
    /\ OtherRows \subseteq stock_history

\* C35: the two subscription maps are inverse to each other, no stored
\* subscriber set is empty, and a client has a subscription entry exactly
\* when it has a connection entry.
C35_MapsInverse ==
    /\ \A c \in Clients, s \in SymbolStrings :
          c \in SubscribersOf(symbol_subscribers, s)
             <=> (c \in DOMAIN subscriptions /\ s \in subscriptions[c])
    /\ DOMAIN symbol_subscribers \subseteq SymbolStrings
    /\ \A s \in DOMAIN symbol_subscribers : symbol_subscribers[s] # {}
    /\ DOMAIN subscriptions = active_connections

\* Both clients are connected: client 1 is subscribed to both symbols and
\* client 2 to one of them.
C35_Witness ==
    /\ active_connections = Clients
    /\ subscriptions[1] = {"ABC", "XYZ"}
    /\ subscriptions[2] = {"ABC"}
    /\ symbol_subscribers = [s \in {"ABC", "XYZ"} |->
                                IF s = "ABC" THEN {1, 2} ELSE {1}]

\* C36: for a connected client and any symbol string it is not subscribed
\* to, unsubscribe of the string after subscribe of the string leaves the
\* two subscription maps and the task registry as they were before the
\* subscribe.
C36_SubscribeUnsubscribeRoundTrip ==
    \A c \in DOMAIN subscriptions, s \in RawSymbols :
        LET m1 == subscribe_symbols(Mgr, c, <<s>>)
            m2 == unsubscribe_symbol(m1, c, s, 0)
        IN  (Strip(Upper(s)) \notin subscriptions[c] /\ ~m1.full) =>
               /\ m2.subscriptions = subscriptions
               /\ m2.symbol_subscribers = symbol_subscribers
               /\ m2.update_tasks = update_tasks

\* C37: a client without a connection entry has no subscription entry and is
\* in no subscriber set; a subscribe for it leaves the manager as it is; and
\* a step of its handler changes no connection, subscription or task and
\* sends nothing.
C37_NoSubscribeWhenDisconnected ==
    [][\A c \in Clients :
          /\ c \notin active_connections' =>
                /\ c \notin DOMAIN subscriptions'
                /\ \A s \in SymbolStrings :
                      c \notin SubscribersOf(symbol_subscribers', s)
          /\ c \notin active_connections =>
                \A symbols \in Messages : subscribe_symbols(Mgr, c, symbols) = Mgr
          /\ (/\ c \notin active_connections
              /\ handler[c].pc # "none"
              /\ handler'[c] # handler[c]) =>
                UNCHANGED <<active_connections, subscriptions, symbol_subscribers,
                            update_tasks, tasks, received>>]_vars

\* Client 2 was disconnected by a failed send of a broadcast while its
\* subscribe is suspended in the push loop; client 1 is subscribed and the
\* task of its symbol is registered.
C37_Witness ==
    /\ active_connections = {1}
    /\ handler[2].pc = "push"
    /\ DOMAIN subscriptions = {1}
    /\ subscriptions[1] # {}
    /\ DOMAIN update_tasks = subscriptions[1]

FirstSend(id) == tasks[id].pc # "send" /\ tasks'[id].pc = "send"

\* After the step the cache holds the tick of task id under the realtime key
\* of its symbol.
TickCached(id) ==
    /\ RealtimeKey(tasks'[id].symbol) \in DOMAIN cache'
    /\ cache'[RealtimeKey(tasks'[id].symbol)].val = dumps(tasks'[id].tick)

\* Client c is sent a tick of ABC in this step.
Delivered(c) == LastOf(received', c, "ABC") # LastOf(received, c, "ABC")

\* A client that stays in the subscriber set of ABC from some time on (no
\* unsubscribe, no end of its handler, no failed send) is sent tick after
\* tick of ABC.
TickEventually ==
    \A c \in Clients :
        <>[](c \in SubscribersOf(symbol_subscribers, "ABC"))
           => []<><<Delivered(c)>>_vars

\* C39 as stated: with fair tasks and a provider that has data, a subscribed
\* and reachable client is sent tick after tick, and a tick is in the cache
\* under realtime:{SYMBOL} when its broadcast starts.
C39_TickCachedThenBroadcast ==
    /\ [][\A id \in DOMAIN tasks : FirstSend(id) => TickCached(id)]_vars
    /\ TickEventually

\* C39, amended: the same, the tick being in the cache when its broadcast
\* starts if the cache is connected.
C39_TickBroadcastCachedIfConnected ==
    /\ [][\A id \in DOMAIN tasks :
             FirstSend(id) /\ redis = "up" => TickCached(id)]_vars
    /\ TickEventually

\* The client has been sent the ticks of times 1 and 2 and a third tick, of
\* time 1 again, is in the cache and on its way to the client.
C39_Witness ==
    /\ redis = "up"
    /\ 1 \in SubscribersOf(symbol_subscribers, "ABC")
    /\ LastOf(received, 1, "ABC") = 2
    /\ clock = 1
    /\ \E id \in DOMAIN tasks :
          /\ tasks[id].pc = "send"
          /\ tasks[id].cur = 1
          /\ TickTime(tasks[id].tick) = 1
          /\ cache[RealtimeKey("ABC")].val = dumps(tasks[id].tick)

====
